---- MODULE Spec2Model ----
(***************************************************************************)
(* A model of fairview (src/src/*.rs): the configuration loader, the       *)
(* baseline store, the process classifier, the hardware and VM evidence    *)
(* accumulators, the fault-isolating scan() and the weighted fusion.       *)
(*                                                                         *)
(* Numbers.  Every f64 score, weight and threshold of the program is a     *)
(* multiple of 0.01 in the modelled inputs and is held as an integer       *)
(* number of hundredths (0.3 is 30).  A product score * weight is held in  *)
(* ten-thousandths (0.8 * 0.3 is 2400), and so is overall_risk_score.      *)
(* The arithmetic is exact; the rounding of IEEE doubles and the values    *)
(* NaN and infinity are not modelled.                                      *)
(***************************************************************************)
EXTENDS Integers, Sequences, FiniteSets, TLC

VARIABLES
    pc,                  \* position of main(): "start", "loaded", "scan", "report", "sleep",
                         \* or "blocked" inside a scan() that does not return
    file,                \* what fairview_config.toml holds
    load_result,         \* how Config::from_file ended in main(): "none", "ok", "err"
    config,              \* FairviewDetector.config (= main's config)
    scan_count,          \* FairviewDetector.scan_count
    baseline_collected,  \* FairviewDetector.baseline_collected
    baseline_processes,  \* ProcessMonitor.baseline_processes (its key set)
    baseline_displays,   \* HardwareDetector.baseline_displays
    behaviour,           \* what each module did when the current cycle invoked it
    report,              \* the DetectionReport scan() returned, until it is emitted
    sink,                \* the report emitted before the sleep: its number, whether its file was written
    call                 \* a single call of a pure function (argument and result), or
                         \* the calls made so far on a FairviewDetector

vars == <<pc, file, load_result, config, scan_count, baseline_collected,
          baseline_processes, baseline_displays, behaviour, report, sink, call>>

mainVars == <<pc, file, load_result, config, scan_count, baseline_collected,
              baseline_processes, baseline_displays, behaviour, report, sink>>

----------------------------------------------------------------------------
(* Results: Rust's Result<T, String>.                                      *)

Ok(v) == [ok |-> TRUE, val |-> v]

Err(e) == [ok |-> FALSE, err |-> e]

Abs(x) == IF x < 0 THEN -x ELSE x

Min(a, b) == IF a <= b THEN a ELSE b

Max(a, b) == IF a >= b THEN a ELSE b

----------------------------------------------------------------------------
(* config.rs                                                               *)

\* Config::default(); the fields no modelled code reads (interval_seconds,
\* three of the thresholds, baseline_duration_seconds,
\* continue_on_module_failure) are left out of the record.  A path is the
\* sequence of its components and every name and path is held in lower
\* case, which is how the code compares them (to_lowercase on both sides).
DefaultConfig ==
    [scan |-> [risk_threshold |-> 50, interview_type |-> "coding"],
     weights |-> [process_risk |-> 30, overlay_risk |-> 20, audio_risk |-> 10,
                  hardware_risk |-> 15, vm_risk |-> 25],
     thresholds |-> [process_threshold |-> 60],
     whitelist |-> [processes |-> {"code.exe", "vscode.exe", "chrome.exe",
                                   "firefox.exe", "msedge.exe"},
                    directories |-> {<<"c:", "program files", "git">>,
                                     <<"c:", "windows", "system32">>,
                                     <<"", "usr", "bin">>,
                                     <<"", "applications">>}],
     monitoring |-> [enable_process_monitoring |-> TRUE,
                     enable_hardware_monitoring |-> TRUE,
                     enable_audio_monitoring |-> TRUE,
                     enable_overlay_monitoring |-> TRUE,
                     enable_vm_detection |-> TRUE,
                     collect_baseline |-> TRUE]]

WeightSum(w) ==
    w.process_risk + w.overlay_risk + w.audio_risk + w.hardware_risk + w.vm_risk

\* validate() without its second check.
validate_no_sign_check(cfg) ==
    IF Abs(WeightSum(cfg.weights) - 100) > 1
    THEN Err("Weights must sum to 1.0")
    ELSE IF cfg.scan.risk_threshold < 0 \/ cfg.scan.risk_threshold > 100
    THEN Err("risk_threshold must be between 0.0 and 1.0")
    ELSE Ok(<<>>)

\* Config::validate
validate(cfg) ==
    IF Abs(WeightSum(cfg.weights) - 100) > 1
    THEN Err("Weights must sum to 1.0")
    ELSE IF \/ cfg.weights.process_risk < 0
            \/ cfg.weights.overlay_risk < 0
            \/ cfg.weights.audio_risk < 0
            \/ cfg.weights.hardware_risk < 0
            \/ cfg.weights.vm_risk < 0
    THEN Err("All weights must be positive")
    ELSE IF cfg.scan.risk_threshold < 0 \/ cfg.scan.risk_threshold > 100
    THEN Err("risk_threshold must be between 0.0 and 1.0")
    ELSE Ok(<<>>)

\* from_file without its call of validate()
from_file_no_validate(f) ==
    IF f.kind = "missing" THEN Err("Failed to read config file")
    ELSE IF f.kind = "malformed" THEN Err("Failed to parse config file")
    ELSE Ok(f.cfg)

\* Config::from_file: f is what the file holds: nothing readable ("missing"),
\* text that is no Config ("malformed"), or a Config ("config").
from_file(f) ==
    IF f.kind = "missing" THEN Err("Failed to read config file")
    ELSE IF f.kind = "malformed" THEN Err("Failed to parse config file")
    ELSE IF ~validate(f.cfg).ok THEN Err(validate(f.cfg).err)
    ELSE Ok(f.cfg)

----------------------------------------------------------------------------
(* process_monitor.rs and the process classifier of main.rs                *)
(*                                                                         *)
(* A Process is [pid, name, path, screen, audio, access]: name is the set  *)
(* of the fragments (of the lists below) that the lower-cased process name *)
(* contains; path is the lower-cased path of its executable as a sequence  *)
(* of pieces of text, cut so that every prefix the code tests is a whole   *)
(* number of pieces (a piece need not be a whole directory name), which    *)
(* makes str::starts_with the prefix order of sequences; screen, audio and *)
(* access are what the three capability probes of process_monitor.rs       *)
(* answer for it.                                                          *)

suspicious_patterns ==
    {"cluely", "interview", "gpt", "chatgpt", "llm", "copilot",
     "aiassistant", "ai-assistant", "interview-bot", "interview-ai"}

common_legit_whitelist ==
    {"explorer.exe", "chrome.exe", "firefox.exe", "msedge.exe",
     "msedgewebview2.exe", "brave.exe", "opera.exe",
     "discord.exe", "slack.exe", "teams.exe", "zoom.exe",
     "code.exe", "vscode.exe", "visual studio",
     "sharex.exe", "obs", "obs64.exe", "streamlabs",
     "steam.exe", "steamwebhelper.exe",
     "svchost.exe", "searchhost.exe", "applicationframehost.exe",
     "shellexperiencehost.exe", "systemsettings.exe",
     "camera hub.exe", "elgato"}

\* str::contains on a process name
NameContains(name, fragment) == fragment \in name

\* str::starts_with on a path
StartsWith(path, prefix) ==
    /\ Len(prefix) <= Len(path)
    /\ \A i \in 1..Len(prefix) : path[i] = prefix[i]

\* FairviewDetector::is_suspicious_name
is_suspicious_name(name) ==
    \E pattern \in suspicious_patterns : NameContains(name, pattern)

\* FairviewDetector::is_common_legit_app
is_common_legit_app(name) ==
    \E w \in common_legit_whitelist : NameContains(name, w)

\* ProcessMonitor::is_whitelisted
is_whitelisted(cfg, process) ==
    \/ \E whitelisted \in cfg.whitelist.processes :
           NameContains(process.name, whitelisted)
    \/ \E whitelisted_dir \in cfg.whitelist.directories :
           StartsWith(process.path, whitelisted_dir)

\* ProcessMonitor::was_in_baseline
was_in_baseline(bp, pid) == pid \in bp

\* started_during without the baseline_collected conjunct
started_during_not_in_baseline(bc, bp, pid) == ~was_in_baseline(bp, pid)

\* main.rs:329
started_during_session(bc, bp, pid) == bc /\ ~was_in_baseline(bp, pid)

\* main.rs:371-373
is_windows_core(path) ==
    \/ StartsWith(path, <<"c:", "windows", "system32">>)
    \/ StartsWith(path, <<"c:", "windows", "syswow64">>)

\* main.rs:362-365
capability_count(has_screen, has_audio, has_access) ==
    (IF has_screen THEN 1 ELSE 0) + (IF has_audio THEN 1 ELSE 0)
        + (IF has_access THEN 1 ELSE 0)

\* the exemption with the common-legit list forgotten
early_exemption_whitelist_only(whitelisted, is_common_legit, has_suspicious_name) ==
    whitelisted /\ ~has_suspicious_name

\* main.rs:367-369, the condition of the `continue`
early_exemption(whitelisted, is_common_legit, has_suspicious_name) ==
    (whitelisted \/ is_common_legit) /\ ~has_suspicious_name

\* should_flag with a suspicious name enough without any capability
should_flag_name_alone(has_suspicious_name, count, is_common_legit, core, started_during) ==
    \/ (has_suspicious_name /\ ~is_common_legit)
    \/ (~has_suspicious_name /\ count >= 3 /\ ~is_common_legit /\ ~core)
    \/ (started_during /\ count >= 2)

\* should_flag with the common-legit conjunct of the first branch forgotten
should_flag_common_legit_by_name(has_suspicious_name, count, is_common_legit, core, started_during) ==
    \/ (has_suspicious_name /\ count >= 1)
    \/ (~has_suspicious_name /\ count >= 3 /\ ~is_common_legit /\ ~core)
    \/ (started_during /\ count >= 2)

\* should_flag with the core-OS-path conjunct of the second branch forgotten
should_flag_no_core_check(has_suspicious_name, count, is_common_legit, core, started_during) ==
    \/ (has_suspicious_name /\ count >= 1 /\ ~is_common_legit)
    \/ (~has_suspicious_name /\ count >= 3 /\ ~is_common_legit)
    \/ (started_during /\ count >= 2)

\* main.rs:375-377
should_flag(has_suspicious_name, count, is_common_legit, core, started_during) ==
    \/ (has_suspicious_name /\ count >= 1 /\ ~is_common_legit)
    \/ (~has_suspicious_name /\ count >= 3 /\ ~is_common_legit /\ ~core)
    \/ (started_during /\ count >= 2)

\* the evidence with every signal weighing 0.3
ProcessEvidence_flat_weights(has_screen, has_audio, has_access, has_suspicious_name, started_not_wl) ==
    LET Add(e, cond, reason) ==
            IF cond THEN [reasons |-> Append(e.reasons, reason),
                          risk_score |-> e.risk_score + 30]
            ELSE e
    IN Add(Add(Add(Add(Add([reasons |-> <<>>, risk_score |-> 0],
                has_screen, "Has screen capture permission"),
                has_audio, "Has audio capture permission"),
                has_access, "Has accessibility API access"),
                has_suspicious_name, "Suspicious process name"),
                started_not_wl, "Started during interview")

\* the evidence with the name heuristic evaluated first
ProcessEvidence_name_first(has_screen, has_audio, has_access, has_suspicious_name, started_not_wl) ==
    LET Add(e, cond, reason, weight) ==
            IF cond THEN [reasons |-> Append(e.reasons, reason),
                          risk_score |-> e.risk_score + weight]
            ELSE e
    IN Add(Add(Add(Add(Add([reasons |-> <<>>, risk_score |-> 0],
                has_suspicious_name, "Suspicious process name", 40),
                has_screen, "Has screen capture permission", 30),
                has_audio, "Has audio capture permission", 30),
                has_access, "Has accessibility API access", 20),
                started_not_wl, "Started during interview", 30)

\* main.rs:337-360: the reasons and the additive score, in evaluation order
ProcessEvidence(has_screen, has_audio, has_access, has_suspicious_name, started_not_wl) ==
    LET e0 == [reasons |-> <<>>, risk_score |-> 0]
        Add(e, cond, reason, weight) ==
            IF cond THEN [reasons |-> Append(e.reasons, reason),
                          risk_score |-> e.risk_score + weight]
            ELSE e
        e1 == Add(e0, has_screen, "Has screen capture permission", 30)
        e2 == Add(e1, has_audio, "Has audio capture permission", 30)
        e3 == Add(e2, has_access, "Has accessibility API access", 20)
        e4 == Add(e3, has_suspicious_name, "Suspicious process name", 40)
    IN Add(e4, started_not_wl, "Started during interview", 30)

\* the iteration with the started-during-session weight also given to
\* whitelisted processes
classify_process_weighing_whitelisted(cfg, bc, bp, process) ==
    LET whitelisted == is_whitelisted(cfg, process)
        started_during == started_during_session(bc, bp, process.pid)
        has_suspicious_name == is_suspicious_name(process.name)
        ev == ProcessEvidence(process.screen, process.audio, process.access,
                              has_suspicious_name, started_during)
        count == capability_count(process.screen, process.audio, process.access)
    IN  IF early_exemption(whitelisted, is_common_legit_app(process.name),
                           has_suspicious_name)
        THEN <<>>
        ELSE IF /\ should_flag(has_suspicious_name, count,
                               is_common_legit_app(process.name),
                               is_windows_core(process.path), started_during)
                /\ ev.reasons # <<>>
                /\ ev.risk_score >= cfg.thresholds.process_threshold
        THEN << [pid |-> process.pid,
                 name |-> process.name,
                 path |-> process.path,
                 risk_score |-> Min(ev.risk_score, 100),
                 reasons |-> ev.reasons,
                 started_during_interview |-> started_during,
                 is_whitelisted |-> whitelisted] >>
        ELSE <<>>

\* main.rs:323-390, one iteration of the loop: the SuspiciousProcess pushed
\* for `process`, as a sequence of zero or one record
classify_process(cfg, bc, bp, process) ==
    LET whitelisted == is_whitelisted(cfg, process)
        started_during == started_during_session(bc, bp, process.pid)
        has_screen == process.screen
        has_audio == process.audio
        has_access == process.access
        has_suspicious_name == is_suspicious_name(process.name)
        is_common_legit == is_common_legit_app(process.name)
        ev == ProcessEvidence(has_screen, has_audio, has_access,
                              has_suspicious_name, started_during /\ ~whitelisted)
        count == capability_count(has_screen, has_audio, has_access)
    IN  IF early_exemption(whitelisted, is_common_legit, has_suspicious_name)
        THEN <<>>
        ELSE IF /\ should_flag(has_suspicious_name, count, is_common_legit,
                               is_windows_core(process.path), started_during)
                /\ ev.reasons # <<>>
                /\ ev.risk_score >= cfg.thresholds.process_threshold
        THEN << [pid |-> process.pid,
                 name |-> process.name,
                 path |-> process.path,
                 risk_score |-> Min(ev.risk_score, 100),
                 reasons |-> ev.reasons,
                 started_during_interview |-> started_during,
                 is_whitelisted |-> whitelisted] >>
        ELSE <<>>

RECURSIVE scan_for_suspicious_processes(_, _, _, _)
\* FairviewDetector::scan_for_suspicious_processes over the list that
\* get_all_processes() returned
scan_for_suspicious_processes(cfg, bc, bp, processes) ==
    IF processes = <<>> THEN <<>>
    ELSE classify_process(cfg, bc, bp, Head(processes))
            \o scan_for_suspicious_processes(cfg, bc, bp, Tail(processes))

----------------------------------------------------------------------------
(* Rust's Option<T>                                                        *)

None == [some |-> FALSE]

Some(v) == [some |-> TRUE, val |-> v]

----------------------------------------------------------------------------
(* vm_detector.rs                                                          *)
(*                                                                         *)
(* What detect() reads from the machine is a probe                         *)
(* [hypervisor, vendor, system, host, macs]: the CPUID hypervisor bit, the *)
(* identified hypervisor vendor ("None" when get_hypervisor_info() gives   *)
(* nothing), whether System::name() / System::host_name() is Some and      *)
(* matches the patterns, and the reasons check_mac_addresses() returns     *)
(* (one per adapter with a VM prefix).                                     *)

\* the vendor test with no vendor held to be ambiguous
IsAmbiguousVendor_never(vendor_str) == FALSE

\* vm_detector.rs:36
IsAmbiguousVendor(vendor_str) == vendor_str \in {"HyperV", "Microsoft"}

\* detect with a verdict at or above the cutoff
detect_at_or_above(probe) ==
    LET vendor == probe.hypervisor /\ probe.vendor # "None"
        ambiguous == vendor /\ IsAmbiguousVendor(probe.vendor)
        confidence ==
            (IF probe.hypervisor THEN 10 ELSE 0)
            + (IF vendor THEN (IF ambiguous THEN 20 ELSE 80) ELSE 0)
            + (IF probe.system THEN 60 ELSE 0)
            + (IF probe.host THEN 30 ELSE 0)
            + (IF probe.macs # <<>> THEN 50 ELSE 0)
    IN  [is_vm |-> confidence >= 70,
         reasons |->
            (IF probe.hypervisor THEN <<"CPUID hypervisor bit set">> ELSE <<>>)
            \o (IF vendor
                THEN (IF ambiguous THEN <<"Hypervisor Vendor (Ambiguous)">>
                      ELSE <<"Hypervisor Vendor detected">>)
                ELSE <<>>)
            \o (IF probe.system THEN <<"Suspicious System Model">> ELSE <<>>)
            \o (IF probe.host THEN <<"Suspicious Hostname">> ELSE <<>>)
            \o probe.macs,
         confidence_score |-> Min(confidence, 100)]

\* VmDetector::detect
detect(probe) ==
    LET e0 == [reasons |-> <<>>, confidence |-> 0]
        e1 == IF probe.hypervisor
              THEN [reasons |-> <<"CPUID hypervisor bit set">>, confidence |-> 10]
              ELSE e0
        e2 == IF probe.hypervisor /\ probe.vendor # "None"
              THEN IF IsAmbiguousVendor(probe.vendor)
                   THEN [reasons |-> Append(e1.reasons, "Hypervisor Vendor (Ambiguous)"),
                         confidence |-> e1.confidence + 20]
                   ELSE [reasons |-> Append(e1.reasons, "Hypervisor Vendor detected"),
                         confidence |-> e1.confidence + 80]
              ELSE e1
        e3 == IF probe.system
              THEN [reasons |-> Append(e2.reasons, "Suspicious System Model"),
                    confidence |-> e2.confidence + 60]
              ELSE e2
        e4 == IF probe.host
              THEN [reasons |-> Append(e3.reasons, "Suspicious Hostname"),
                    confidence |-> e3.confidence + 30]
              ELSE e3
        e5 == IF probe.macs # <<>>
              THEN [reasons |-> e4.reasons \o probe.macs,
                    confidence |-> e4.confidence + 50]
              ELSE e4
    IN  [is_vm |-> e5.confidence > 70,
         reasons |-> e5.reasons,
         confidence_score |-> Min(e5.confidence, 100)]

----------------------------------------------------------------------------
(* hardware_detector.rs                                                    *)
(*                                                                         *)
(* A DisplayConfiguration is [display_count, displays, has_virtual_display,*)
(* has_hdmi_splitter_signature], a display [id, name, connection_type].   *)
(* A flag is [text, args]: the fixed text of the message and the values    *)
(* formatted into it.  The hardware probe of a cycle is [display, rdp]: the Result   *)
(* of get_current_display_configuration() and the answer of                *)
(* detect_remote_desktop_active().                                         *)

Flag(text, args) == [text |-> text, args |-> args]

\* get_*_displays: display_count is displays.len() on every platform
DisplayConfiguration(displays, has_virtual, has_splitter) ==
    [display_count |-> Len(displays),
     displays |-> displays,
     has_virtual_display |-> has_virtual,
     has_hdmi_splitter_signature |-> has_splitter]

\* HardwareDetector::set_baseline: the new baseline_displays and the Result
set_baseline(bd, display) ==
    IF display.ok THEN [baseline_displays |-> Some(display.val), result |-> Ok(<<>>)]
    ELSE [baseline_displays |-> bd, result |-> Err(display.err)]

RECURSIVE NewDisplayEvidence(_, _, _)
\* hardware_detector.rs:103-109
NewDisplayEvidence(e, baseline_ids, displays) ==
    IF displays = <<>> THEN e
    ELSE LET d == Head(displays)
             e1 == IF d.id \notin baseline_ids
                   THEN [flags |-> Append(e.flags, Flag("New display connected during interview", <<d.name>>)),
                         risk_score |-> e.risk_score + 30]
                   ELSE e
         IN NewDisplayEvidence(e1, baseline_ids, Tail(displays))

RECURSIVE ConnectionEvidence(_, _)
\* hardware_detector.rs:112-122
ConnectionEvidence(e, displays) ==
    IF displays = <<>> THEN e
    ELSE LET d == Head(displays)
             e1 == IF d.connection_type = "USB"
                   THEN [flags |-> Append(e.flags, Flag("USB display detected", <<d.name>>)),
                         risk_score |-> e.risk_score + 20]
                   ELSE e
             e2 == IF d.connection_type = "Wireless"
                   THEN [flags |-> Append(e1.flags, Flag("Wireless display detected", <<d.name>>)),
                         risk_score |-> e1.risk_score + 25]
                   ELSE e1
         IN ConnectionEvidence(e2, Tail(displays))

\* f64::clamp(0.0, 1.0)
Clamp01(x) == Max(0, Min(x, 100))

\* HardwareDetector::detect_hardware_cheating
detect_hardware_cheating(bd, probe) ==
    IF ~probe.display.ok
    THEN [risk_score |-> 0,
          flags |-> <<Flag("Unable to detect display configuration", <<probe.display.err>>)>>,
          details |-> [error |-> "display_detection_failed"]]
    ELSE
    LET current_config == probe.display.val
        n == current_config.display_count
        e0 == [flags |-> <<>>, risk_score |-> 0]
        e1 == IF current_config.has_hdmi_splitter_signature
              THEN [flags |-> Append(e0.flags, Flag("HDMI splitter signature detected", <<>>)),
                    risk_score |-> e0.risk_score + 70]
              ELSE e0
        e2 == IF current_config.has_virtual_display
              THEN [flags |-> Append(e1.flags, Flag("Virtual display detected", <<>>)),
                    risk_score |-> e1.risk_score + 50]
              ELSE e1
        e3 == IF n > 1
              THEN [flags |-> Append(e2.flags, Flag("Multiple displays detected", <<n>>)),
                    risk_score |-> e2.risk_score + (IF n = 2 THEN 5 ELSE 15)]
              ELSE e2
        e4 == IF bd.some /\ bd.val.display_count # n
              THEN [flags |-> Append(e3.flags,
                                     Flag("Display configuration changed during interview",
                                          <<bd.val.display_count, n>>)),
                    risk_score |-> e3.risk_score + 40]
              ELSE e3
        e5 == IF bd.some
              THEN NewDisplayEvidence(e4,
                       {bd.val.displays[i].id : i \in 1..Len(bd.val.displays)},
                       current_config.displays)
              ELSE e4
        e6 == ConnectionEvidence(e5, current_config.displays)
        e7 == IF probe.rdp
              THEN [flags |-> Append(e6.flags, Flag("Remote desktop connection detected", <<>>)),
                    risk_score |-> e6.risk_score + 80]
              ELSE e6
    IN  [risk_score |-> Clamp01(e7.risk_score),
         flags |-> e7.flags,
         details |-> [display_count |-> ToString(n)]]

----------------------------------------------------------------------------
(* main.rs: the fusion and scan()                                          *)

RECURSIVE MaxRisk(_)
\* main.rs:432-436: the greatest risk_score of a non-empty list
MaxRisk(procs) ==
    IF Len(procs) = 1 THEN procs[1].risk_score
    ELSE Max(procs[1].risk_score, MaxRisk(Tail(procs)))

\* calculate_overall_risk without the final min(1.0)
calculate_overall_risk_unclamped(cfg, suspicious_processes, hidden_overlays, audio_monitoring, hardware_suspicion, vm_result) ==
    (IF suspicious_processes # <<>>
        THEN MaxRisk(suspicious_processes) * cfg.weights.process_risk ELSE 0)
    + (IF hidden_overlays # <<>> THEN 100 * cfg.weights.overlay_risk ELSE 0)
    + (IF audio_monitoring THEN 100 * cfg.weights.audio_risk ELSE 0)
    + (IF hardware_suspicion.some
        THEN hardware_suspicion.val.risk_score * cfg.weights.hardware_risk ELSE 0)
    + (IF vm_result.some /\ vm_result.val.is_vm
        THEN vm_result.val.confidence_score * cfg.weights.vm_risk ELSE 0)

\* calculate_overall_risk with the overlay contribution scaled by the count
calculate_overall_risk_per_overlay(cfg, suspicious_processes, hidden_overlays, audio_monitoring, hardware_suspicion, vm_result) ==
    Min(10000,
        calculate_overall_risk_unclamped(cfg, suspicious_processes, <<>>,
            audio_monitoring, hardware_suspicion, vm_result)
        + Len(hidden_overlays) * 100 * cfg.weights.overlay_risk)

\* calculate_overall_risk with the last flagged process read in place of
\* the riskiest
calculate_overall_risk_last_process(cfg, suspicious_processes, hidden_overlays, audio_monitoring, hardware_suspicion, vm_result) ==
    Min(10000,
        calculate_overall_risk_unclamped(cfg, <<>>, hidden_overlays,
            audio_monitoring, hardware_suspicion, vm_result)
        + (IF suspicious_processes # <<>>
           THEN suspicious_processes[Len(suspicious_processes)].risk_score
                    * cfg.weights.process_risk
           ELSE 0))

\* FairviewDetector::calculate_overall_risk, in ten-thousandths
calculate_overall_risk(cfg, suspicious_processes, hidden_overlays, audio_monitoring, hardware_suspicion, vm_result) ==
    LET r0 == 0
        r1 == IF suspicious_processes # <<>>
              THEN r0 + MaxRisk(suspicious_processes) * cfg.weights.process_risk
              ELSE r0
        r2 == IF hidden_overlays # <<>>
              THEN r1 + 100 * cfg.weights.overlay_risk
              ELSE r1
        r3 == IF audio_monitoring
              THEN r2 + 100 * cfg.weights.audio_risk
              ELSE r2
        r4 == IF hardware_suspicion.some
              THEN r3 + hardware_suspicion.val.risk_score * cfg.weights.hardware_risk
              ELSE r3
        r5 == IF vm_result.some /\ vm_result.val.is_vm
              THEN r4 + vm_result.val.confidence_score * cfg.weights.vm_risk
              ELSE r4
    IN Min(r5, 10000)

\* main.rs:247
exceeds_threshold(cfg, overall_risk) ==
    overall_risk >= 100 * cfg.scan.risk_threshold

\* str::parse::<usize>().ok() of a details value
ParseUsize(str, limit) ==
    IF \E k \in 0..limit : ToString(k) = str
    THEN Some(CHOOSE k \in 0..limit : ToString(k) = str)
    ELSE None

\* f.to_lowercase().contains(phrase) for a flag of hardware_detector.rs
FlagContains(f, phrase) ==
    \/ (phrase = "virtual display" /\ f.text = "Virtual display detected")
    \/ (phrase = "hdmi splitter" /\ f.text = "HDMI splitter signature detected")
    \/ (phrase = "remote desktop" /\ f.text = "Remote desktop connection detected")

AnyFlag(flags, phrase) == \E i \in 1..Len(flags) : FlagContains(flags[i], phrase)

\* FairviewDetector::summarize_hardware
summarize_hardware(hs) ==
    [display_count |->
        IF "display_count" \in DOMAIN hs.details
        THEN LET parsed == ParseUsize(hs.details.display_count, 99)
             IN IF parsed.some THEN parsed.val ELSE 1
        ELSE 1,
     has_virtual_display |-> AnyFlag(hs.flags, "virtual display"),
     has_hdmi_splitter |-> AnyFlag(hs.flags, "hdmi splitter"),
     remote_desktop_active |-> AnyFlag(hs.flags, "remote desktop")]

\* main.rs:253-276
hardware_report(bd, hardware_suspicion) ==
    IF ~hardware_suspicion.some THEN None
    ELSE LET hs == hardware_suspicion.val
             sum == summarize_hardware(hs)
             baseline_count == IF bd.some THEN Some(bd.val.display_count) ELSE None
             display_changed == IF baseline_count.some
                                THEN baseline_count.val # sum.display_count
                                ELSE FALSE
         IN Some([risk_score |-> hs.risk_score,
                  display_count |-> sum.display_count,
                  has_virtual_display |-> sum.has_virtual_display,
                  has_hdmi_splitter |-> sum.has_hdmi_splitter,
                  remote_desktop_active |-> sum.remote_desktop_active,
                  flags |-> hs.flags,
                  baseline_display_count |-> baseline_count,
                  display_changed |-> display_changed])

(* What the five modules do when scan() invokes them is env, a record      *)
(* [vm, process, overlay, audio, hardware] of behaviours                   *)
(* [panic |-> TRUE] (the module unwinds) or [panic |-> FALSE, val |-> v],  *)
(* v being the VM probe, the list get_all_processes() returns, the list    *)
(* find_hidden_overlays() returns, the answer of                           *)
(* detect_realtime_audio_processing() and the hardware probe.              *)

Panics == [panic |-> TRUE]

\* a module that the cycle did not invoke
NotInvoked == [panic |-> FALSE, invoked |-> FALSE]

\* no cycle is under way
NoEnv == [vm |-> NotInvoked, process |-> NotInvoked, overlay |-> NotInvoked,
          audio |-> NotInvoked, hardware |-> NotInvoked]

Returns(v) == [panic |-> FALSE, val |-> v]

\* a module call that never returns
Blocks == [panic |-> FALSE, blocks |-> TRUE]

\* std::panic::catch_unwind of a module call: Ok(result) or Err(_)
catch_unwind(module, result) ==
    IF module.panic THEN Err("panic") ELSE Ok(result)

\* the VM step without its push on module_failures
scan_vm_unrecorded(cfg, env, failures) ==
    IF cfg.monitoring.enable_vm_detection /\ ~env.vm.panic
    THEN [val |-> Some(detect(env.vm.val)), failures |-> failures]
    ELSE [val |-> None, failures |-> failures]

\* main.rs:146-164
scan_vm(cfg, env, failures) ==
    IF cfg.monitoring.enable_vm_detection
    THEN LET r == catch_unwind(env.vm, IF env.vm.panic THEN <<>> ELSE detect(env.vm.val))
         IN IF r.ok THEN [val |-> Some(r.val), failures |-> failures]
            ELSE [val |-> None,
                  failures |-> Append(failures, "VM detection module failed")]
    ELSE [val |-> None, failures |-> failures]

\* the process step with a faulted module invoked a second time, which
\* faults again
scan_process_retrying(cfg, bc, bp, env, failures) ==
    IF cfg.monitoring.enable_process_monitoring
    THEN IF env.process.panic
         THEN [val |-> <<>>,
               failures |-> failures \o <<"Process monitoring module failed",
                                          "Process monitoring module failed">>]
         ELSE [val |-> scan_for_suspicious_processes(cfg, bc, bp, env.process.val),
               failures |-> failures]
    ELSE [val |-> <<>>, failures |-> failures]

\* main.rs:166-183
scan_process(cfg, bc, bp, env, failures) ==
    IF cfg.monitoring.enable_process_monitoring
    THEN LET r == catch_unwind(env.process,
                      IF env.process.panic THEN <<>>
                      ELSE scan_for_suspicious_processes(cfg, bc, bp, env.process.val))
         IN IF r.ok THEN [val |-> r.val, failures |-> failures]
            ELSE [val |-> <<>>,
                  failures |-> Append(failures, "Process monitoring module failed")]
    ELSE [val |-> <<>>, failures |-> failures]

\* the overlay step with a module that is not enabled recorded as failed
scan_overlay_absent_is_failure(cfg, env, failures) ==
    IF cfg.monitoring.enable_overlay_monitoring /\ ~env.overlay.panic
    THEN [val |-> env.overlay.val, failures |-> failures]
    ELSE [val |-> <<>>,
          failures |-> Append(failures, "Overlay detection module failed")]

\* main.rs:185-201
scan_overlay(cfg, env, failures) ==
    IF cfg.monitoring.enable_overlay_monitoring
    THEN LET r == catch_unwind(env.overlay,
                      IF env.overlay.panic THEN <<>> ELSE env.overlay.val)
         IN IF r.ok THEN [val |-> r.val, failures |-> failures]
            ELSE [val |-> <<>>,
                  failures |-> Append(failures, "Overlay detection module failed")]
    ELSE [val |-> <<>>, failures |-> failures]

\* the audio step with a fault counted as a detection
scan_audio_fault_detected(cfg, env, failures) ==
    IF cfg.monitoring.enable_audio_monitoring
    THEN IF env.audio.panic
         THEN [val |-> TRUE,
               failures |-> Append(failures, "Audio detection module failed")]
         ELSE [val |-> env.audio.val, failures |-> failures]
    ELSE [val |-> FALSE, failures |-> failures]

\* the audio step with its failure put at the head of module_failures
scan_audio_failure_first(cfg, env, failures) ==
    IF cfg.monitoring.enable_audio_monitoring
    THEN IF env.audio.panic
         THEN [val |-> FALSE,
               failures |-> <<"Audio detection module failed">> \o failures]
         ELSE [val |-> env.audio.val, failures |-> failures]
    ELSE [val |-> FALSE, failures |-> failures]

\* main.rs:203-219
scan_audio(cfg, env, failures) ==
    IF cfg.monitoring.enable_audio_monitoring
    THEN LET r == catch_unwind(env.audio,
                      IF env.audio.panic THEN FALSE ELSE env.audio.val)
         IN IF r.ok THEN [val |-> r.val, failures |-> failures]
            ELSE [val |-> FALSE,
                  failures |-> Append(failures, "Audio detection module failed")]
    ELSE [val |-> FALSE, failures |-> failures]

\* the hardware step with module_failures assigned instead of pushed to
scan_hardware_overwriting(cfg, bd, env, failures) ==
    IF cfg.monitoring.enable_hardware_monitoring
    THEN IF env.hardware.panic
         THEN [val |-> None, failures |-> <<"Hardware detection module failed">>]
         ELSE [val |-> Some(detect_hardware_cheating(bd, env.hardware.val)),
               failures |-> failures]
    ELSE [val |-> None, failures |-> failures]

\* the hardware step with an error of the display probe taken as a fault
scan_hardware_err_is_failure(cfg, bd, env, failures) ==
    IF cfg.monitoring.enable_hardware_monitoring
    THEN IF env.hardware.panic \/ ~env.hardware.val.display.ok
         THEN [val |-> None,
               failures |-> Append(failures, "Hardware detection module failed")]
         ELSE [val |-> Some(detect_hardware_cheating(bd, env.hardware.val)),
               failures |-> failures]
    ELSE [val |-> None, failures |-> failures]

\* main.rs:221-237
scan_hardware(cfg, bd, env, failures) ==
    IF cfg.monitoring.enable_hardware_monitoring
    THEN LET r == catch_unwind(env.hardware,
                      IF env.hardware.panic THEN <<>>
                      ELSE detect_hardware_cheating(bd, env.hardware.val))
         IN IF r.ok THEN [val |-> Some(r.val), failures |-> failures]
            ELSE [val |-> None,
                  failures |-> Append(failures, "Hardware detection module failed")]
    ELSE [val |-> None, failures |-> failures]

\* FairviewDetector::scan: the DetectionReport of the cycle that makes the
\* scan counter `count`
scan(cfg, bc, bp, bd, count, env) ==
    LET vm == scan_vm(cfg, env, <<>>)
        pr == scan_process(cfg, bc, bp, env, vm.failures)
        ov == scan_overlay(cfg, env, pr.failures)
        au == scan_audio(cfg, env, ov.failures)
        hw == scan_hardware(cfg, bd, env, au.failures)
        overall_risk == calculate_overall_risk(cfg, pr.val, ov.val, au.val, hw.val, vm.val)
    IN  [scan_number |-> count,
         suspicious_processes |-> pr.val,
         hidden_overlays |-> ov.val,
         audio_monitoring_detected |-> au.val,
         hardware_suspicion |-> hardware_report(bd, hw.val),
         vm_detection |-> vm.val,
         overall_risk_score |-> overall_risk,
         exceeds_threshold |-> exceeds_threshold(cfg, overall_risk),
         module_failures |-> hw.failures]

----------------------------------------------------------------------------
(* main(): load the configuration, build the detector, collect the         *)
(* baseline when configured, then scan, emit the report and sleep, for     *)
(* ever.  The model stops after MaxScans cycles.                           *)

MaxScans == 3

MaxOverlays == 2

\* the bodies of the module calls of one run
ToolProcess ==
    [pid |-> 1, name |-> {"cluely"}, path |-> <<"c:", "users", "candidate", "app.exe">>,
     screen |-> TRUE, audio |-> TRUE, access |-> TRUE]

HelperProcess ==
    [pid |-> 2, name |-> {}, path |-> <<"c:", "users", "candidate", "app.exe">>,
     screen |-> TRUE, audio |-> TRUE, access |-> FALSE]

RunProcessLists == {<<>>, <<HelperProcess>>, <<ToolProcess, HelperProcess>>}

RunVmProbes ==
    {[hypervisor |-> TRUE, vendor |-> "HyperV", system |-> FALSE, host |-> FALSE, macs |-> <<>>],
     [hypervisor |-> TRUE, vendor |-> "VMware", system |-> TRUE, host |-> FALSE,
      macs |-> <<"VM Network Adapter (VMware)">>]}

\* find_hidden_overlays() returns k windows
OverlayList(k) == [i \in 1..k |-> [handle |-> i]]

RunOverlayLists == {OverlayList(0), OverlayList(1)}

MainDisplay == [id |-> "DP-1", name |-> "Built-in Display", connection_type |-> "DisplayPort"]

UsbDisplay == [id |-> "USB-1", name |-> "USB Monitor", connection_type |-> "USB"]

WirelessDisplay == [id |-> "WL-1", name |-> "Wireless Monitor", connection_type |-> "Wireless"]

RunDisplayResults ==
    {Err("display detection failed"),
     Ok(DisplayConfiguration(<<MainDisplay>>, FALSE, FALSE)),
     Ok(DisplayConfiguration(<<MainDisplay, UsbDisplay>>, TRUE, TRUE))}

RunHardwareProbes ==
    {[display |-> d, rdp |-> (d.ok /\ d.val.display_count > 1)] : d \in RunDisplayResults}

\* what the modules can do in a cycle under cfg: a module that is not
\* enabled is not invoked, an invoked one unwinds or returns
Behaviours(enabled, values) ==
    IF enabled THEN {Panics} \cup {Returns(v) : v \in values} ELSE {NotInvoked}

RunEnvs(cfg) ==
    [vm : Behaviours(cfg.monitoring.enable_vm_detection, RunVmProbes),
     process : Behaviours(cfg.monitoring.enable_process_monitoring, RunProcessLists),
     overlay : Behaviours(cfg.monitoring.enable_overlay_monitoring, RunOverlayLists),
     audio : Behaviours(cfg.monitoring.enable_audio_monitoring, BOOLEAN),
     hardware : Behaviours(cfg.monitoring.enable_hardware_monitoring, RunHardwareProbes)]

\* a MonitoringConfig with the five enable_* flags false
NothingEnabled(collect) ==
    [enable_process_monitoring |-> FALSE, enable_hardware_monitoring |-> FALSE,
     enable_audio_monitoring |-> FALSE, enable_overlay_monitoring |-> FALSE,
     enable_vm_detection |-> FALSE, collect_baseline |-> collect]

\* what fairview_config.toml can hold: nothing readable, no Config, a Config
\* that validate() rejects, the default with the five modules disabled and
\* risk_threshold at either end of [0,1], or the default with any
\* monitoring flags
RunConfigFiles ==
    {[kind |-> "missing"], [kind |-> "malformed"],
     [kind |-> "config", cfg |-> [DefaultConfig EXCEPT !.weights.process_risk = 50]],
     [kind |-> "config", cfg |-> [DefaultConfig EXCEPT !.scan.risk_threshold = 150]]}
    \cup
    {[kind |-> "config", cfg |-> [DefaultConfig EXCEPT !.monitoring = NothingEnabled(c),
                                                      !.scan.risk_threshold = t]] :
        c \in BOOLEAN, t \in {0, 100}}
    \cup
    {[kind |-> "config", cfg |-> [DefaultConfig EXCEPT !.monitoring = m]] :
        m \in [enable_process_monitoring : BOOLEAN,
               enable_hardware_monitoring : BOOLEAN,
               enable_audio_monitoring : BOOLEAN,
               enable_overlay_monitoring : BOOLEAN,
               enable_vm_detection : BOOLEAN,
               collect_baseline : BOOLEAN]}

\* before main() has a configuration
NoConfig == [none |-> TRUE]

\* no pure function is being called
NoCall == [fn |-> "none"]

Init ==
    /\ pc = "start"
    /\ file \in RunConfigFiles
    /\ load_result = "none"
    /\ config = NoConfig
    /\ scan_count = 0
    /\ baseline_collected = FALSE
    /\ baseline_processes = {}
    /\ baseline_displays = None
    /\ behaviour = NoEnv
    /\ report = None
    /\ sink = None
    /\ call = NoCall

\* main.rs:558-578: Config::from_file, the fallback to Config::default()
\* with save_to_file (which writes the file or fails), FairviewDetector::new
LoadConfig ==
    /\ pc = "start"
    /\ LET r == from_file(file) IN
        /\ load_result' = IF r.ok THEN "ok" ELSE "err"
        /\ config' = IF r.ok THEN r.val ELSE DefaultConfig
        /\ IF r.ok THEN file' = file
           ELSE file' \in {file, [kind |-> "config", cfg |-> DefaultConfig]}
    /\ scan_count' = 0
    /\ baseline_collected' = FALSE
    /\ baseline_processes' = {}
    /\ baseline_displays' = None
    /\ pc' = "loaded"
    /\ UNCHANGED <<behaviour, report, sink, call>>

\* ProcessMonitor::collect_baseline: the keys of baseline_processes after
\* inserting every listed process
process_collect_baseline(bp, processes) ==
    bp \cup {processes[i].pid : i \in 1..Len(processes)}

\* FairviewDetector::collect_baseline, with the process list and the
\* display configuration the machine has at that moment
collect_baseline(processes, display) ==
    IF ~config.monitoring.collect_baseline
    THEN UNCHANGED <<baseline_processes, baseline_displays, baseline_collected>>
    ELSE /\ baseline_processes' = process_collect_baseline(baseline_processes, processes)
         /\ baseline_displays' = set_baseline(baseline_displays, display).baseline_displays
         /\ baseline_collected' = TRUE

\* main.rs:580-586, config.monitoring.collect_baseline set
CollectBaseline ==
    /\ pc = "loaded"
    /\ config.monitoring.collect_baseline
    /\ \E processes \in RunProcessLists, display \in RunDisplayResults :
           collect_baseline(processes, display)
    /\ pc' = "scan"
    /\ UNCHANGED <<file, load_result, config, scan_count, behaviour, report, sink, call>>

\* main.rs:580, config.monitoring.collect_baseline not set
SkipBaseline ==
    /\ pc = "loaded"
    /\ ~config.monitoring.collect_baseline
    /\ pc' = "scan"
    /\ UNCHANGED <<file, load_result, config, scan_count, baseline_collected,
                   baseline_processes, baseline_displays, behaviour, report, sink, call>>

\* scan() adding the processes it lists to the baseline
Scan_learning_baseline ==
    /\ pc = "scan"
    /\ scan_count < MaxScans
    /\ \E e \in RunEnvs(config) :
        /\ behaviour' = e
        /\ scan_count' = scan_count + 1
        /\ report' = Some(scan(config, baseline_collected, baseline_processes,
                               baseline_displays, scan_count + 1, e))
        /\ baseline_processes' =
                IF config.monitoring.enable_process_monitoring /\ ~e.process.panic
                THEN process_collect_baseline(baseline_processes, e.process.val)
                ELSE baseline_processes
    /\ sink' = None
    /\ pc' = "report"
    /\ UNCHANGED <<file, load_result, config, baseline_collected, baseline_displays, call>>

\* main.rs:594: detector.scan()
Scan ==
    /\ pc = "scan"
    /\ scan_count < MaxScans
    /\ \E e \in RunEnvs(config) :
        /\ behaviour' = e
        /\ scan_count' = scan_count + 1
        /\ report' = Some(scan(config, baseline_collected, baseline_processes,
                               baseline_displays, scan_count + 1, e))
    /\ sink' = None
    /\ pc' = "report"
    /\ UNCHANGED <<file, load_result, config, baseline_collected, baseline_processes,
                   baseline_displays, call>>

\* main.rs:594 with a process source that never returns: scan() has
\* counted the cycle and run the VM step (main.rs:141-164), calls
\* get_all_processes() inside catch_unwind (main.rs:166-169) and waits;
\* nothing bounds the wait, so scan() does not return
ScanBlocked ==
    /\ pc = "scan"
    /\ scan_count < MaxScans
    /\ config.monitoring.enable_process_monitoring
    /\ \E vm \in Behaviours(config.monitoring.enable_vm_detection, RunVmProbes) :
           behaviour' = [NoEnv EXCEPT !.vm = vm, !.process = Blocks]
    /\ scan_count' = scan_count + 1
    /\ report' = None
    /\ sink' = None
    /\ pc' = "blocked"
    /\ UNCHANGED <<file, load_result, config, baseline_collected, baseline_processes,
                   baseline_displays, call>>

\* the emission with the loop left when the report file cannot be written
EmitReport_stopping_on_write_failure ==
    /\ pc = "report"
    /\ \E written \in BOOLEAN :
        /\ sink' = Some([scan_number |-> report.val.scan_number, written |-> written])
        /\ pc' = IF written THEN "sleep" ELSE "stopped"
    /\ report' = None
    /\ behaviour' = NoEnv
    /\ UNCHANGED <<file, load_result, config, scan_count, baseline_collected,
                   baseline_processes, baseline_displays, call>>

\* main.rs:595-607: print_report, then the report file is written or not
EmitReport ==
    /\ pc = "report"
    /\ \E written \in BOOLEAN :
           sink' = Some([scan_number |-> report.val.scan_number, written |-> written])
    /\ report' = None
    /\ behaviour' = NoEnv
    /\ pc' = "sleep"
    /\ UNCHANGED <<file, load_result, config, scan_count, baseline_collected,
                   baseline_processes, baseline_displays, call>>

\* main.rs:609: tokio::time::sleep, then the next iteration
Sleep ==
    /\ pc = "sleep"
    /\ pc' = "scan"
    /\ UNCHANGED <<file, load_result, config, scan_count, baseline_collected,
                   baseline_processes, baseline_displays, behaviour, report, sink, call>>

Next ==
    LoadConfig \/ CollectBaseline \/ SkipBaseline \/ Scan \/ ScanBlocked
        \/ EmitReport \/ Sleep

Spec == Init /\ [][Next]_vars

\* main() keeps running: a step that can be taken is taken
SpecLive == Init /\ [][Next]_vars /\ WF_vars(Next)

----------------------------------------------------------------------------
(* Claims about a run of main().                                           *)

Modules == {"vm", "process", "overlay", "audio", "hardware"}

Enabled(m) ==
    CASE m = "vm" -> config.monitoring.enable_vm_detection
      [] m = "process" -> config.monitoring.enable_process_monitoring
      [] m = "overlay" -> config.monitoring.enable_overlay_monitoring
      [] m = "audio" -> config.monitoring.enable_audio_monitoring
      [] m = "hardware" -> config.monitoring.enable_hardware_monitoring

FailureText(m) ==
    CASE m = "vm" -> "VM detection module failed"
      [] m = "process" -> "Process monitoring module failed"
      [] m = "overlay" -> "Overlay detection module failed"
      [] m = "audio" -> "Audio detection module failed"
      [] m = "hardware" -> "Hardware detection module failed"

\* the part of a report that module m fills
ResultOf(m, rep) ==
    CASE m = "vm" -> rep.vm_detection
      [] m = "process" -> rep.suspicious_processes
      [] m = "overlay" -> rep.hidden_overlays
      [] m = "audio" -> rep.audio_monitoring_detected
      [] m = "hardware" -> rep.hardware_suspicion

\* a cycle has run and its report is at hand
Scanned == pc = "report" /\ report.some

Faulted == {m \in Modules : Enabled(m) /\ behaviour[m].panic}

\* the cycle's behaviours with every faulted module returning instead
WithoutFaults ==
    {e \in RunEnvs(config) :
        \A m \in Modules : (~behaviour[m].panic => e[m] = behaviour[m]) /\ ~e[m].panic}

(* C1: whatever subset of the enabled modules faults in a cycle, every     *)
(* other enabled module's result in the report is what it is when no       *)
(* module faults, and module_failures holds exactly one entry for each     *)
(* faulted module; when only the hardware module faults, that is one       *)
(* entry, naming the hardware module.                                      *)
C1_FaultIsolation ==
    Scanned =>
        /\ \A e \in WithoutFaults :
             LET clean == scan(config, baseline_collected, baseline_processes,
                               baseline_displays, scan_count, e)
             IN \A m \in Modules \ Faulted :
                    ResultOf(m, report.val) = ResultOf(m, clean)
        /\ Len(report.val.module_failures) = Cardinality(Faulted)
        /\ \A m \in Modules :
             (m \in Faulted) <=>
                (\E i \in 1..Len(report.val.module_failures) :
                    report.val.module_failures[i] = FailureText(m))
        /\ (Faulted = {"hardware"} =>
                report.val.module_failures = <<"Hardware detection module failed">>)

\* only the hardware module faulted, in a cycle where the VM module found a
\* VM, a process was flagged, overlays were found and audio was detected
C1_Witness ==
    /\ Scanned
    /\ Faulted = {"hardware"}
    /\ \A m \in Modules : Enabled(m)
    /\ report.val.vm_detection.some /\ report.val.vm_detection.val.is_vm
    /\ report.val.suspicious_processes # <<>>
    /\ report.val.hidden_overlays # <<>>
    /\ report.val.audio_monitoring_detected
    /\ ~report.val.hardware_suspicion.some

(* C2: every call of scan() returns a DetectionReport; when all five       *)
(* modules are enabled and all five fault, the report has overall score 0, *)
(* no processes, no overlays, no audio detection, no hardware and no VM    *)
(* result, and module_failures lists the five modules.                     *)
C2_AlwaysAReport ==
    /\ (pc = "report" => report.some /\ report.val.scan_number = scan_count)
    /\ (Scanned /\ Faulted = Modules =>
            /\ report.val.overall_risk_score = 0
            /\ report.val.suspicious_processes = <<>>
            /\ report.val.hidden_overlays = <<>>
            /\ report.val.audio_monitoring_detected = FALSE
            /\ report.val.hardware_suspicion = None
            /\ report.val.vm_detection = None
            /\ Len(report.val.module_failures) = 5
            /\ {report.val.module_failures[i] : i \in 1..5}
                    = {FailureText(m) : m \in Modules})

\* scan() returned although every one of the five modules faulted
C2_Witness == Scanned /\ Faulted = Modules

ListedProcesses ==
    IF behaviour.process.panic \/ ~Enabled("process") THEN {}
    ELSE {behaviour.process.val[i] : i \in 1..Len(behaviour.process.val)}

HasReason(sp, reason) == \E i \in 1..Len(sp.reasons) : sp.reasons[i] = reason

\* the first two branches of the flag condition
FlaggedWithoutBaseline(p) ==
    LET n == capability_count(p.screen, p.audio, p.access)
        name == is_suspicious_name(p.name)
        legit == is_common_legit_app(p.name)
    IN  \/ (name /\ n >= 1 /\ ~legit)
        \/ (~name /\ n >= 3 /\ ~legit /\ ~is_windows_core(p.path))

(* C7: before any baseline capture, and in every run with                  *)
(* monitoring.collect_baseline = false, was_in_baseline is false for every *)
(* pid and started_during_session is false for every process of every      *)
(* scan: no emitted process carries the 'Started during interview' reason  *)
(* or its weight, and none is flagged by the started-during-session branch.*)
C7_BaselineAbsence ==
    /\ (pc \notin {"start", "loaded"} /\ ~config.monitoring.collect_baseline
            => ~baseline_collected)
    /\ (~baseline_collected =>
            /\ \A pid \in 1..3 : ~was_in_baseline(baseline_processes, pid)
            /\ Scanned =>
                 \A i \in 1..Len(report.val.suspicious_processes) :
                    LET sp == report.val.suspicious_processes[i] IN
                    /\ ~sp.started_during_interview
                    /\ ~HasReason(sp, "Started during interview")
                    /\ \E p \in ListedProcesses :
                        /\ p.pid = sp.pid
                        /\ FlaggedWithoutBaseline(p)
                        /\ sp.risk_score =
                             Min(100, (IF p.screen THEN 30 ELSE 0)
                                        + (IF p.audio THEN 30 ELSE 0)
                                        + (IF p.access THEN 20 ELSE 0)
                                        + (IF is_suspicious_name(p.name) THEN 40 ELSE 0)))

\* with collect_baseline = false a scan listed two processes that no
\* baseline holds, and emitted only the one flagged for its name
C7_Witness ==
    /\ Scanned
    /\ ~config.monitoring.collect_baseline
    /\ ~behaviour.process.panic
    /\ Enabled("process")
    /\ behaviour.process.val = <<ToolProcess, HelperProcess>>
    /\ Len(report.val.suspicious_processes) = 1

NoModuleEnabled == \A m \in Modules : ~Enabled(m)

\* the report of a cycle that invoked nothing, but for exceeds_threshold
EmptyReport ==
    /\ report.val.suspicious_processes = <<>>
    /\ report.val.hidden_overlays = <<>>
    /\ report.val.audio_monitoring_detected = FALSE
    /\ report.val.hardware_suspicion = None
    /\ report.val.vm_detection = None
    /\ report.val.overall_risk_score = 0
    /\ report.val.module_failures = <<>>

(* C11 as stated: with the five enable_* flags false every report has      *)
(* empty lists, no audio detection, no hardware and no VM result, score 0, *)
(* exceeds_threshold = false and no module failure.                        *)
C11_AllDisabledNothingExceeds ==
    Scanned /\ NoModuleEnabled =>
        EmptyReport /\ report.val.exceeds_threshold = FALSE

(* C11 as amended: with the five enable_* flags false every report has     *)
(* empty lists, no audio detection, no hardware and no VM result, score 0  *)
(* and no module failure; exceeds_threshold is false when                  *)
(* scan.risk_threshold > 0 and true when scan.risk_threshold = 0.          *)
C11_AllDisabledEmptyReport ==
    Scanned /\ NoModuleEnabled =>
        /\ EmptyReport
        /\ report.val.exceeds_threshold = (config.scan.risk_threshold = 0)

\* a cycle with nothing enabled and risk_threshold 0: the score 0 reaches
\* the threshold
C11_Witness ==
    /\ Scanned
    /\ NoModuleEnabled
    /\ config.scan.risk_threshold = 0
    /\ report.val.exceeds_threshold

\* the enable_* flag of module m
FlagOf(m) ==
    CASE m = "vm" -> "enable_vm_detection"
      [] m = "process" -> "enable_process_monitoring"
      [] m = "overlay" -> "enable_overlay_monitoring"
      [] m = "audio" -> "enable_audio_monitoring"
      [] m = "hardware" -> "enable_hardware_monitoring"

\* cfg with module m disabled
Without(cfg, m) == [cfg EXCEPT !.monitoring[FlagOf(m)] = FALSE]

\* whatever module m could do if it were invoked
AnyBehaviourOf(m) ==
    CASE m = "vm" -> Behaviours(TRUE, RunVmProbes)
      [] m = "process" -> Behaviours(TRUE, RunProcessLists)
      [] m = "overlay" -> Behaviours(TRUE, RunOverlayLists)
      [] m = "audio" -> Behaviours(TRUE, BOOLEAN)
      [] m = "hardware" -> Behaviours(TRUE, RunHardwareProbes)

\* the report of the current cycle had it run under cfg with behaviours e
SameCycle(cfg, e) ==
    scan(cfg, baseline_collected, baseline_processes, baseline_displays, scan_count, e)

WithoutText(failures, text) == SelectSeq(failures, LAMBDA t : t # text)

(* C12: a module whose flag is false is not invoked, adds nothing to       *)
(* module_failures and contributes 0 to overall_risk_score (the report is  *)
(* the same whatever the module would have done); a cycle in which module  *)
(* M faults has the overall_risk_score and exceeds_threshold of the same   *)
(* cycle with M disabled, and the two reports differ only by M's entry in  *)
(* module_failures.                                                        *)
C12_AbsenceIsZeroContribution ==
    Scanned =>
        \A m \in Modules :
            /\ ~Enabled(m) =>
                    /\ behaviour[m] = NotInvoked
                    /\ \A i \in 1..Len(report.val.module_failures) :
                            report.val.module_failures[i] # FailureText(m)
                    /\ \A b \in AnyBehaviourOf(m) :
                            SameCycle(config, [behaviour EXCEPT ![m] = b]) = report.val
            /\ m \in Faulted =>
                    LET off == SameCycle(Without(config, m),
                                         [behaviour EXCEPT ![m] = NotInvoked])
                    IN  /\ off.overall_risk_score = report.val.overall_risk_score
                        /\ off.exceeds_threshold = report.val.exceeds_threshold
                        /\ off.module_failures
                                = WithoutText(report.val.module_failures, FailureText(m))
                        /\ Len(off.module_failures) + 1 = Len(report.val.module_failures)
                        /\ off = [report.val EXCEPT !.module_failures = off.module_failures]

\* the audio module faulted and the overlay module was disabled in a cycle
\* that flagged a process and exceeded the threshold
C12_Witness ==
    /\ Scanned
    /\ "audio" \in Faulted
    /\ ~Enabled("overlay")
    /\ report.val.suspicious_processes # <<>>
    /\ report.val.overall_risk_score > 0
    /\ report.val.exceeds_threshold

BaselineState == <<baseline_processes, baseline_displays, baseline_collected>>

(* C15: the baseline process set and the display baseline are written only *)
(* by the baseline capture, which happens at most once and before the      *)
(* first scan cycle; a scan, faulting or not, changes no detector state    *)
(* but the scan counter: config, the baseline and baseline_collected stay  *)
(* as they are.                                                            *)
C15_BaselineConstantOverScans ==
    [][ /\ (BaselineState' # BaselineState =>
                /\ pc = "loaded"
                /\ pc' = "scan"
                /\ scan_count = 0
                /\ config.monitoring.collect_baseline)
        /\ (pc' = "loaded" => pc = "start")
        /\ pc' # "start"
        /\ (pc = "scan" /\ pc' # "scan" =>
                /\ scan_count' = scan_count + 1
                /\ config' = config
                /\ BaselineState' = BaselineState)
        /\ (pc # "start" => config' = config) ]_vars

\* the third scan of a run whose baseline holds two processes and a display
\* configuration, in a cycle with a module fault
C15_Witness ==
    /\ Scanned
    /\ scan_count = 3
    /\ baseline_collected
    /\ baseline_processes = {1, 2}
    /\ baseline_displays.some
    /\ Faulted # {}

\* the process source of the current cycle does not return
ProcessSourceBlocks == behaviour.process = Blocks

(* C16: when the process source never returns during a cycle, the cycle    *)
(* still completes: it yields a DetectionReport that lists the process     *)
(* module in module_failures.                                              *)
C16_BlockedSourceIsAFault ==
    ProcessSourceBlocks ~>
        (/\ Scanned
         /\ \E i \in 1..Len(report.val.module_failures) :
                report.val.module_failures[i] = FailureText("process"))

\* the hardware module was invoked and its display probe returned an error
DisplayProbeFailed ==
    /\ Scanned
    /\ Enabled("hardware")
    /\ ~behaviour.hardware.panic
    /\ ~behaviour.hardware.val.display.ok

HardwareListedAsFailed ==
    \E i \in 1..Len(report.val.module_failures) :
        report.val.module_failures[i] = FailureText("hardware")

\* the other modules' parts of the report are those of the same cycle with
\* a display probe that succeeds
OthersUnaffectedByHardware ==
    \A b \in AnyBehaviourOf("hardware") :
        LET other == SameCycle(config, [behaviour EXCEPT !.hardware = b])
        IN \A m \in Modules \ {"hardware"} :
                ResultOf(m, other) = ResultOf(m, report.val)

LoopPositions ==
    /\ (pc = "scan" =>
            /\ report = None
            /\ (scan_count = 0 => sink = None)
            /\ (scan_count > 0 =>
                    sink.some /\ sink.val.scan_number = scan_count)
            /\ (scan_count < MaxScans => ENABLED Scan))
    /\ (pc = "report" =>
            /\ report.some
            /\ report.val.scan_number = scan_count
            /\ ENABLED EmitReport)
    /\ (pc = "sleep" =>
            /\ report = None
            /\ sink.some
            /\ sink.val.scan_number = scan_count
            /\ ENABLED Sleep)

\* how the loop of main() moves
LoopSteps ==
    /\ (scan_count' # scan_count => pc = "scan" /\ scan_count' = scan_count + 1)
    /\ (pc' = "scan" /\ pc # "scan" => pc \in {"loaded", "sleep"})
    /\ (pc = "report" /\ pc' # "report" =>
            /\ pc' = "sleep"
            /\ sink'.some
            /\ sink'.val.scan_number = report.val.scan_number)
    /\ (pc = "sleep" /\ pc' # "sleep" => pc' = "scan" /\ sink' = sink)

(* C18: scan n+1 begins only after the report of scan n has been printed,  *)
(* its persistence attempted and the sleep elapsed; a report file that     *)
(* cannot be written does not stop the loop, and no module fault ends it:  *)
(* after every cycle the emission, the sleep and the next scan can be      *)
(* taken.                                                                  *)
C18_NoCycleOverlap == [](LoopPositions) /\ [][LoopSteps]_vars

\* the loop stands before its third scan after the file of the second
\* report could not be written
C18_Witness ==
    /\ pc = "scan"
    /\ scan_count = 2
    /\ sink.some
    /\ sink.val.scan_number = 2
    /\ ~sink.val.written

\* the hardware module raised its drift flag in the cycle
DriftFlagRaised ==
    \E i \in DOMAIN report.val.hardware_suspicion.val.flags :
        report.val.hardware_suspicion.val.flags[i].text
            = "Display configuration changed during interview"

InvocationOrder == <<"vm", "process", "overlay", "audio", "hardware">>

(* C27: in every report module_failures has no duplicates, has no entry    *)
(* for a disabled module or for a module that returned normally, has at    *)
(* most as many entries as there are enabled modules (at most 5), and its  *)
(* entries stand in the invocation order VM, process, overlay, audio,      *)
(* hardware.                                                               *)
C27_ModuleFailuresWellFormed ==
    Scanned =>
        LET mf == report.val.module_failures
            Position(text) == CHOOSE k \in 1..5 : FailureText(InvocationOrder[k]) = text
        IN  /\ \A i, j \in DOMAIN mf : i # j => mf[i] # mf[j]
            /\ \A i \in DOMAIN mf :
                    \E m \in Modules :
                        /\ mf[i] = FailureText(m)
                        /\ Enabled(m)
                        /\ behaviour[m].panic
            /\ Len(mf) <= Cardinality({m \in Modules : Enabled(m)})
            /\ Len(mf) <= 5
            /\ \A i, j \in DOMAIN mf : i < j => Position(mf[i]) < Position(mf[j])

\* a cycle in which the VM, audio and hardware modules fault and the other
\* two return
C27_Witness ==
    /\ Scanned
    /\ Faulted = {"vm", "audio", "hardware"}
    /\ Enabled("process") /\ Enabled("overlay")
    /\ report.val.module_failures =
            <<FailureText("vm"), FailureText("audio"), FailureText("hardware")>>

----------------------------------------------------------------------------
(* A FairviewDetector used through its public methods: after new(config),  *)
(* collect_baseline() and scan() are called in any order, MaxCalls times   *)
(* in all.  call.history lists the calls: what the machine held at each    *)
(* capture, what the modules did in each scan and the report returned.     *)

MaxCalls == 3

DetectorConfigs ==
    {DefaultConfig,
     [DefaultConfig EXCEPT !.monitoring.enable_vm_detection = FALSE,
                           !.monitoring.enable_overlay_monitoring = FALSE],
     [DefaultConfig EXCEPT !.monitoring.collect_baseline = FALSE]}

\* the sets of modules that unwind together in a scan of this detector
FaultPatterns == {{}, {"process"}, {"hardware"}, {"vm", "audio"}, Modules}

\* what a module returns in a scan of this detector
TypicalValue(m) ==
    CASE m = "vm" -> [hypervisor |-> TRUE, vendor |-> "VMware", system |-> TRUE,
                      host |-> FALSE, macs |-> <<"VM Network Adapter (VMware)">>]
      [] m = "process" -> <<ToolProcess, HelperProcess>>
      [] m = "overlay" -> OverlayList(1)
      [] m = "audio" -> TRUE
      [] m = "hardware" -> [display |-> Ok(DisplayConfiguration(<<MainDisplay, UsbDisplay>>,
                                                                 FALSE, FALSE)),
                            rdp |-> FALSE]

DetectorEnvs(cfg) ==
    {[m \in Modules |->
        IF ~cfg.monitoring[FlagOf(m)] THEN NotInvoked
        ELSE IF m \in faults THEN Panics
        ELSE Returns(TypicalValue(m))] : faults \in FaultPatterns}

\* FairviewDetector::new
InitDetector ==
    /\ pc = "detector"
    /\ file = [kind |-> "missing"]
    /\ load_result = "none"
    /\ config \in DetectorConfigs
    /\ scan_count = 0
    /\ baseline_collected = FALSE
    /\ baseline_processes = {}
    /\ baseline_displays = None
    /\ behaviour = NoEnv
    /\ report = None
    /\ sink = None
    /\ call = [fn |-> "detector", history |-> <<>>]

\* FairviewDetector::collect_baseline
DetectorCollectBaseline ==
    /\ call.fn = "detector"
    /\ Len(call.history) < MaxCalls
    /\ \E processes \in RunProcessLists, display \in RunDisplayResults :
        /\ collect_baseline(processes, display)
        /\ call' = [call EXCEPT !.history =
                        Append(@, [op |-> "collect_baseline", processes |-> processes,
                                   display |-> display])]
    /\ UNCHANGED <<pc, file, load_result, config, scan_count, behaviour, report, sink>>

\* scan() with the counter left alone in a cycle with a module failure
DetectorScan_counting_clean_cycles ==
    /\ call.fn = "detector"
    /\ Len(call.history) < MaxCalls
    /\ \E e \in DetectorEnvs(config) :
        /\ behaviour' = e
        /\ scan_count' = IF \E m \in Modules : e[m].panic
                          THEN scan_count ELSE scan_count + 1
        /\ report' = Some(scan(config, baseline_collected, baseline_processes,
                               baseline_displays, scan_count', e))
        /\ call' = [call EXCEPT !.history =
                        Append(@, [op |-> "scan", env |-> e, report |-> report'.val])]
    /\ UNCHANGED <<pc, file, load_result, config, baseline_collected,
                   baseline_processes, baseline_displays, sink>>

\* FairviewDetector::scan: the counter, the report, and the call recorded
DetectorScan ==
    /\ call.fn = "detector"
    /\ Len(call.history) < MaxCalls
    /\ \E e \in DetectorEnvs(config) :
        /\ behaviour' = e
        /\ scan_count' = scan_count + 1
        /\ report' = Some(scan(config, baseline_collected, baseline_processes,
                               baseline_displays, scan_count + 1, e))
        /\ call' = [call EXCEPT !.history =
                        Append(@, [op |-> "scan", env |-> e, report |-> report'.val])]
    /\ UNCHANGED <<pc, file, load_result, config, baseline_collected,
                   baseline_processes, baseline_displays, sink>>

NextDetector == DetectorCollectBaseline \/ DetectorScan

SpecDetector == InitDetector /\ [][NextDetector]_vars

OnDetector == call.fn = "detector"

\* the scans made so far, in order
Scans == SelectSeq(call.history, LAMBDA c : c.op = "scan")

\* the captures made so far, in order
Captures == SelectSeq(call.history, LAMBDA c : c.op = "collect_baseline")

FaultedIn(c) == {m \in Modules : c.env[m].panic}

(* C13: the first report of a detector has scan_number 1 and the n-th call *)
(* of scan() returns scan_number n: the counter goes up by exactly one per *)
(* cycle, with no repeat and no decrease, also in cycles where modules     *)
(* fault or are disabled.                                                  *)
C13_ScanNumbering ==
    OnDetector =>
        /\ \A n \in 1..Len(Scans) : Scans[n].report.scan_number = n
        /\ scan_count = Len(Scans)

\* the third scan of a detector with two modules disabled, after a scan in
\* which two modules faulted
C13_Witness ==
    /\ OnDetector
    /\ Len(Scans) = 3
    /\ ~Enabled("vm") /\ ~Enabled("overlay")
    /\ FaultedIn(Scans[2]) = {"audio"}
    /\ Scans[3].report.scan_number = 3

\* the pids of a process list
PidsOf(processes) == {processes[i].pid : i \in 1..Len(processes)}

(* C14: after the baseline has been captured a second time the stored      *)
(* snapshot is the second one: was_in_baseline(pid) is true if and only if *)
(* pid was in the process list of the latest capture, and the display      *)
(* baseline is the configuration of the latest capture.                    *)
C14_RecaptureReplaces ==
    (OnDetector /\ config.monitoring.collect_baseline /\ Len(Captures) >= 2) =>
        LET latest == Captures[Len(Captures)]
        IN  /\ \A pid \in 1..3 :
                    was_in_baseline(baseline_processes, pid)
                        <=> pid \in PidsOf(latest.processes)
            /\ latest.display.ok =>
                    baseline_displays = Some(latest.display.val)

\* how often module m's failure is listed in a report
TimesListed(m, rep) ==
    Cardinality({i \in 1..Len(rep.module_failures) :
                    rep.module_failures[i] = FailureText(m)})

\* what the report holds for a module that gave no result
AbsentResult(m) ==
    CASE m = "vm" -> None
      [] m = "process" -> <<>>
      [] m = "overlay" -> <<>>
      [] m = "audio" -> FALSE
      [] m = "hardware" -> None

\* the report holds the result of module m's one invocation in scan c
HoldsResultOf(m, c) ==
    CASE m = "vm" -> c.report.vm_detection = Some(detect(c.env.vm.val))
      [] m = "process" -> c.report.suspicious_processes # <<>>
      [] m = "overlay" -> c.report.hidden_overlays = c.env.overlay.val
      [] m = "audio" -> c.report.audio_monitoring_detected = c.env.audio.val
      [] m = "hardware" -> c.report.hardware_suspicion.some

(* C19: in each scan every enabled module is invoked exactly once: a       *)
(* module that faults is listed once in module_failures and gives no       *)
(* result in that cycle (it is not invoked again), a disabled one is not   *)
(* invoked; and in the next scan every enabled module is invoked again: a  *)
(* module that faulted in the previous cycle and now returns has its       *)
(* result in the report and is not listed as failed.                       *)
C19_NoRetryWithinACycle ==
    OnDetector =>
        \A k \in 1..Len(Scans) : \A m \in Modules :
            LET c == Scans[k] IN
            /\ (Enabled(m) <=> c.env[m] # NotInvoked)
            /\ (m \in FaultedIn(c) =>
                    /\ TimesListed(m, c.report) = 1
                    /\ ResultOf(m, c.report) = AbsentResult(m))
            /\ (m \notin FaultedIn(c) => TimesListed(m, c.report) = 0)
            /\ (Enabled(m) /\ m \notin FaultedIn(c) => HoldsResultOf(m, c))
            /\ Len(c.report.module_failures) = Cardinality(FaultedIn(c))

\* every module faulted in one scan and returned its result in the next
C19_Witness ==
    /\ OnDetector
    /\ Len(Scans) >= 2
    /\ \A m \in Modules : Enabled(m)
    /\ FaultedIn(Scans[1]) = Modules
    /\ FaultedIn(Scans[2]) = {}
    /\ \A m \in Modules : HoldsResultOf(m, Scans[2])
    /\ Scans[2].report.module_failures = <<>>

----------------------------------------------------------------------------
(* The configurations validate() is applied to: every combination of the   *)
(* values below, which hold the default, sums of 0.98 .. 1.02, negative    *)
(* weights with a sum of 1.0, and thresholds around both ends of [0,1].    *)

ValidateWeights ==
    [process_risk : {-10, 0, 29, 30, 31, 32, 50},
     overlay_risk : {-10, 20, 21},
     audio_risk : {0, 10},
     hardware_risk : {-5, 15, 16},
     vm_risk : {24, 25, 35}]

ValidateConfigs ==
    {[DefaultConfig EXCEPT !.weights = w, !.scan = s] :
        w \in ValidateWeights,
        s \in [risk_threshold : {-1, 0, 50, 100, 101, 150},
               interview_type : {"coding", "invalid"}]}

ConfigFiles ==
    {[kind |-> "missing"], [kind |-> "malformed"]}
        \cup {[kind |-> "config", cfg |-> c] : c \in ValidateConfigs}

\* The variables of main(), where a specification does not run main().
MainIdle ==
    /\ pc = "idle"
    /\ file = [kind |-> "missing"]
    /\ load_result = "none"
    /\ config = DefaultConfig
    /\ scan_count = 0
    /\ baseline_collected = FALSE
    /\ baseline_processes = {}
    /\ baseline_displays = None
    /\ behaviour = NoEnv
    /\ report = None
    /\ sink = None

InitValidate ==
    /\ MainIdle
    /\ call \in {[fn |-> "pending", kind |-> "config", arg |-> f] : f \in ConfigFiles}

CallValidate ==
    /\ call.fn = "pending"
    /\ call.kind = "config"
    /\ call.arg.kind = "config"
    /\ call' = [fn |-> "validate", arg |-> call.arg, res |-> validate(call.arg.cfg)]
    /\ UNCHANGED mainVars

CallFromFile ==
    /\ call.fn = "pending"
    /\ call.kind = "config"
    /\ call' = [fn |-> "from_file", arg |-> call.arg, res |-> from_file(call.arg)]
    /\ UNCHANGED mainVars

NextValidate == CallValidate \/ CallFromFile

SpecValidate == InitValidate /\ [][NextValidate]_vars

----------------------------------------------------------------------------
(* The process classifier applied to one process: every combination of a   *)
(* name (suspicious, common-legit and whitelisted, common-legit only, or    *)
(* neither), a path (whitelisted core-OS, core-OS only, whitelisted only,   *)
(* neither), the three capabilities, the baseline (none, taken without the  *)
(* process, taken with it) and a process_threshold.                         *)

ClassifyNames == SUBSET {"cluely", "chrome.exe", "obs"}

ClassifyPaths ==
    {<<"c:", "windows", "system32", "app.exe">>,
     <<"c:", "windows", "syswow64", "app.exe">>,
     <<"c:", "program files", "git", "app.exe">>,
     <<"c:", "users", "candidate", "app.exe">>}

ClassifyProcesses ==
    [pid : {1}, name : ClassifyNames, path : ClassifyPaths,
     screen : BOOLEAN, audio : BOOLEAN, access : BOOLEAN]

ClassifyArgs ==
    {[cfg |-> [DefaultConfig EXCEPT !.thresholds.process_threshold = t],
      baseline_collected |-> b[1],
      baseline_processes |-> b[2],
      processes |-> <<p>>] :
        t \in {0, 60, 70, 120},
        b \in {<<FALSE, {}>>, <<TRUE, {}>>, <<TRUE, {1}>>},
        p \in ClassifyProcesses}

InitClassify ==
    /\ MainIdle
    /\ call \in {[fn |-> "pending", kind |-> "classify", arg |-> a] : a \in ClassifyArgs}

CallClassify ==
    /\ call.fn = "pending"
    /\ call.kind = "classify"
    /\ call' = [fn |-> "scan_for_suspicious_processes",
                arg |-> call.arg,
                res |-> scan_for_suspicious_processes(
                            call.arg.cfg, call.arg.baseline_collected,
                            call.arg.baseline_processes, call.arg.processes)]
    /\ UNCHANGED mainVars

NextClassify == CallClassify

SpecClassify == InitClassify /\ [][NextClassify]_vars

\* The signals of the classified process, as the claims name them.
Classified == call.fn = "scan_for_suspicious_processes"

TheProcess == call.arg.processes[1]

SigScreen == TheProcess.screen

SigAudio == TheProcess.audio

SigAccess == TheProcess.access

SigSuspiciousName == is_suspicious_name(TheProcess.name)

SigWhitelisted == is_whitelisted(call.arg.cfg, TheProcess)

SigCommonLegit == is_common_legit_app(TheProcess.name)

SigCoreOsPath == is_windows_core(TheProcess.path)

SigStartedDuring ==
    call.arg.baseline_collected /\ TheProcess.pid \notin call.arg.baseline_processes

SigCapabilityCount == Cardinality({k \in {"s", "a", "x"} :
    \/ (k = "s" /\ SigScreen)
    \/ (k = "a" /\ SigAudio)
    \/ (k = "x" /\ SigAccess)})

Emitted == call.res # <<>>

(* C5: a process with (is_whitelisted or is_common_legit) and without a    *)
(* suspicious name is never emitted, whatever its capabilities, whether it *)
(* started during the session and whatever process_threshold is.           *)
C5_AllowListOverride ==
    (Classified /\ (SigWhitelisted \/ SigCommonLegit) /\ ~SigSuspiciousName)
        => ~Emitted

\* chrome.exe with all three capabilities, started during the session, with
\* process_threshold 0, has been classified and was not emitted
C5_Witness ==
    /\ Classified
    /\ TheProcess.name = {"chrome.exe"}
    /\ SigScreen /\ SigAudio /\ SigAccess
    /\ SigStartedDuring
    /\ call.arg.cfg.thresholds.process_threshold = 0
    /\ ~Emitted

ClaimedExemption == (SigWhitelisted \/ SigCommonLegit) /\ ~SigSuspiciousName

ClaimedFlagCondition ==
    \/ (SigSuspiciousName /\ SigCapabilityCount >= 1 /\ ~SigCommonLegit)
    \/ (~SigSuspiciousName /\ SigCapabilityCount >= 3 /\ ~SigCommonLegit
            /\ ~SigCoreOsPath)
    \/ (SigStartedDuring /\ SigCapabilityCount >= 2)

ClaimedReasonCount ==
    SigCapabilityCount + (IF SigSuspiciousName THEN 1 ELSE 0)
        + (IF SigStartedDuring /\ ~SigWhitelisted THEN 1 ELSE 0)

ClaimedScore ==
    (IF SigScreen THEN 30 ELSE 0) + (IF SigAudio THEN 30 ELSE 0)
        + (IF SigAccess THEN 20 ELSE 0) + (IF SigSuspiciousName THEN 40 ELSE 0)
        + (IF SigStartedDuring /\ ~SigWhitelisted THEN 30 ELSE 0)

(* C6: a ProcessSuspicion is emitted if and only if the early exemption    *)
(* does not apply, and the flag condition holds (suspicious name with a    *)
(* capability and not common-legit, or no suspicious name with three       *)
(* capabilities, not common-legit and no core-OS path, or started during   *)
(* the session with two capabilities), and the process has a reason, and   *)
(* its additive score is at least thresholds.process_threshold.            *)
C6_EmitRule ==
    Classified =>
        (Emitted <=> /\ ~ClaimedExemption
                     /\ ClaimedFlagCondition
                     /\ ClaimedReasonCount >= 1
                     /\ ClaimedScore >= call.arg.cfg.thresholds.process_threshold)

\* a process that satisfies the flag condition and is not exempt, with a
\* score below the threshold, has been classified and was suppressed
C6_Witness ==
    /\ Classified
    /\ ~ClaimedExemption
    /\ ClaimedFlagCondition
    /\ ClaimedScore < call.arg.cfg.thresholds.process_threshold
    /\ ~Emitted

(* C20: every emitted ProcessSuspicion has risk_score = min(1.0, 0.3 for   *)
(* screen capture + 0.3 for audio capture + 0.2 for accessibility + 0.4    *)
(* for a suspicious name + 0.3 for started during the session and not      *)
(* whitelisted).                                                           *)
C20_ProcessRiskScore ==
    Classified /\ Emitted =>
        /\ Len(call.res) = 1
        /\ call.res[1].risk_score =
                Min(100, (IF SigScreen THEN 30 ELSE 0)
                            + (IF SigAudio THEN 30 ELSE 0)
                            + (IF SigAccess THEN 20 ELSE 0)
                            + (IF SigSuspiciousName THEN 40 ELSE 0)
                            + (IF SigStartedDuring /\ ~SigWhitelisted THEN 30 ELSE 0))

\* a process with the five signals, whose weights add up to 1.5, is
\* emitted with risk_score 1.0
C20_Witness ==
    /\ Classified
    /\ Emitted
    /\ SigScreen /\ SigAudio /\ SigAccess /\ SigSuspiciousName
    /\ SigStartedDuring /\ ~SigWhitelisted
    /\ call.res[1].risk_score = 100

\* the process is past the `continue` of the exemption and satisfies
\* should_flag
PassesExemptionAndFlagCondition ==
    /\ ~early_exemption(SigWhitelisted, SigCommonLegit, SigSuspiciousName)
    /\ should_flag(SigSuspiciousName, SigCapabilityCount, SigCommonLegit,
                   SigCoreOsPath, SigStartedDuring)

ProcessThreshold == call.arg.cfg.thresholds.process_threshold

(* C24: every process that passes the exemption and satisfies the flag     *)
(* condition has at least one capability signal, at least one reason and   *)
(* an additive score of at least 0.6; so such a process is suppressed only *)
(* by the score gate, never by the reason check, and with the default      *)
(* process_threshold 0.6 it is never suppressed.                           *)
C24_FlaggedHasEvidence ==
    (Classified /\ PassesExemptionAndFlagCondition) =>
        /\ SigCapabilityCount >= 1
        /\ ClaimedReasonCount >= 1
        /\ ClaimedScore >= 60
        /\ (Emitted <=> ClaimedScore >= ProcessThreshold)
        /\ (Emitted => /\ Len(call.res[1].reasons) = ClaimedReasonCount
                       /\ Len(call.res[1].reasons) >= 1)
        /\ (ProcessThreshold = DefaultConfig.thresholds.process_threshold => Emitted)

\* the weakest flagged process, a suspicious name with accessibility
\* access only (0.6), under the default threshold
C24_Witness ==
    /\ Classified
    /\ PassesExemptionAndFlagCondition
    /\ ClaimedScore = 60
    /\ ProcessThreshold = DefaultConfig.thresholds.process_threshold
    /\ Emitted

(* C25: every emitted ProcessSuspicion has a reported risk_score greater   *)
(* than or equal to thresholds.process_threshold, for every config that    *)
(* passes validate().                                                      *)
C25_ReportedScoreReachesThreshold ==
    (Classified /\ Emitted /\ validate(call.arg.cfg).ok) =>
        call.res[1].risk_score >= ProcessThreshold

(* C28: for every emitted ProcessSuspicion the 'Started during interview'  *)
(* reason, and its 0.3 in the score, is present if and only if             *)
(* started_during_interview is true and is_whitelisted is false; a         *)
(* whitelisted process with a suspicious name that started during the      *)
(* session is reported with started_during_interview = true but without    *)
(* the reason or the weight.                                               *)
C28_StartedReasonOnlyIfNotWhitelisted ==
    (Classified /\ Emitted) =>
        LET sp == call.res[1]
            counted == sp.started_during_interview /\ ~sp.is_whitelisted
        IN  /\ sp.started_during_interview = SigStartedDuring
            /\ sp.is_whitelisted = SigWhitelisted
            /\ HasReason(sp, "Started during interview") <=> counted
            /\ sp.risk_score =
                    Min(100, (IF SigScreen THEN 30 ELSE 0)
                                + (IF SigAudio THEN 30 ELSE 0)
                                + (IF SigAccess THEN 20 ELSE 0)
                                + (IF SigSuspiciousName THEN 40 ELSE 0)
                                + (IF counted THEN 30 ELSE 0))

\* a whitelisted process with a suspicious name and one capability that
\* started during the session: reported as started, scored without it
C28_Witness ==
    /\ Classified
    /\ Emitted
    /\ SigWhitelisted /\ SigSuspiciousName /\ SigStartedDuring
    /\ SigCapabilityCount = 1
    /\ call.res[1].started_during_interview
    /\ ~HasReason(call.res[1], "Started during interview")
    /\ call.res[1].risk_score < 100

(* C29: a common-legit application is emitted only through the            *)
(* started-during-session branch: only if it has a suspicious name, a      *)
(* baseline exists, it started during the session and it has at least two  *)
(* capabilities; a common-legit process that was in the baseline is never  *)
(* emitted, whatever its name and capabilities.                            *)
C29_CommonLegitOnlyByLateStart ==
    (Classified /\ SigCommonLegit) =>
        /\ (Emitted =>
                /\ SigSuspiciousName
                /\ call.arg.baseline_collected
                /\ TheProcess.pid \notin call.arg.baseline_processes
                /\ SigCapabilityCount >= 2)
        /\ (TheProcess.pid \in call.arg.baseline_processes => ~Emitted)

\* a common-legit application with a suspicious name and two capabilities
\* that started after the baseline has been emitted
C29_Witness ==
    /\ Classified
    /\ SigCommonLegit
    /\ SigSuspiciousName
    /\ SigStartedDuring
    /\ SigCapabilityCount = 2
    /\ Emitted

----------------------------------------------------------------------------
(* The scoring functions applied to single inputs: the process classifier  *)
(* (ClassifyArgs), VmDetector::detect on every probe,                      *)
(* detect_hardware_cheating on every display configuration of up to        *)
(* MaxDisplays displays, and the fusion of scan() on a grid of             *)
(* configurations and module results.                                      *)

MaxVmAdapters == 1

MaxDisplays == 3

VmProbes ==
    [hypervisor : BOOLEAN, vendor : {"None", "HyperV", "VMware"},
     system : BOOLEAN, host : BOOLEAN,
     macs : {[i \in 1..k |-> "VM Network Adapter (VMware)"] : k \in 0..MaxVmAdapters}]

DisplaySeqs ==
    UNION {[1..k -> {MainDisplay, UsbDisplay, WirelessDisplay}] : k \in 0..MaxDisplays}

HardwareArgs ==
    [bd : {None,
           Some(DisplayConfiguration(<<>>, FALSE, FALSE)),
           Some(DisplayConfiguration(<<MainDisplay>>, FALSE, FALSE)),
           Some(DisplayConfiguration(<<MainDisplay, UsbDisplay>>, FALSE, FALSE))},
     probe : [display : {Err("display detection failed")}
                            \cup {Ok(DisplayConfiguration(ds, v, sp)) :
                                    ds \in DisplaySeqs, v \in BOOLEAN, sp \in BOOLEAN},
              rdp : BOOLEAN]]

FusionWeights ==
    {[process_risk |-> w[1], overlay_risk |-> w[2], audio_risk |-> w[3],
      hardware_risk |-> w[4], vm_risk |-> w[5]] :
        w \in {<<30, 20, 10, 15, 25>>, <<31, 20, 10, 15, 25>>, <<100, 0, 0, 0, 0>>,
               <<0, 0, 0, 0, 100>>, <<20, 20, 20, 20, 21>>, <<0, 50, 51, 0, 0>>,
               <<50, 20, 10, 15, 25>>, <<-10, 50, 20, 15, 25>>}}

FusionConfigs ==
    {[DefaultConfig EXCEPT !.weights = w, !.scan.risk_threshold = t] :
        w \in FusionWeights, t \in {0, 50, 53, 100}}

\* a flagged process, of which the fusion reads the risk_score alone
Flagged(pid, risk) ==
    [pid |-> pid, name |-> {"cluely"}, path |-> <<"unknown">>, risk_score |-> risk,
     reasons |-> <<"Suspicious process name">>, started_during_interview |-> FALSE,
     is_whitelisted |-> FALSE]

\* the module results scan() hands to the fusion
FusionProcessLists ==
    {<<>>, <<Flagged(1, 60)>>, <<Flagged(1, 80)>>,
     <<Flagged(1, 60), Flagged(2, 100)>>,
     <<Flagged(1, 100), Flagged(2, 60)>>}

FusionOverlayLists == {OverlayList(k) : k \in 0..MaxOverlays}

FusionHardwareResults ==
    {None} \cup
        {Some([risk_score |-> r, flags |-> <<>>, details |-> [display_count |-> "1"]]) :
            r \in {0, 40, 100}}

FusionVmResults ==
    {None} \cup
        {Some([is_vm |-> v[1], reasons |-> <<>>, confidence_score |-> v[2]]) :
            v \in {<<FALSE, 30>>, <<FALSE, 70>>, <<TRUE, 90>>, <<TRUE, 100>>}}

FusionArgs ==
    [cfg : FusionConfigs,
     suspicious_processes : FusionProcessLists,
     hidden_overlays : FusionOverlayLists,
     audio_monitoring : BOOLEAN,
     hardware_suspicion : FusionHardwareResults,
     vm_result : FusionVmResults]

InitScores ==
    /\ MainIdle
    /\ call \in {[fn |-> "pending", kind |-> "classify", arg |-> a] : a \in ClassifyArgs}
            \cup {[fn |-> "pending", kind |-> "vm", arg |-> a] : a \in VmProbes}
            \cup {[fn |-> "pending", kind |-> "hardware", arg |-> a] : a \in HardwareArgs}
            \cup {[fn |-> "pending", kind |-> "fusion", arg |-> a] : a \in FusionArgs}

CallDetect ==
    /\ call.fn = "pending"
    /\ call.kind = "vm"
    /\ call' = [fn |-> "detect", arg |-> call.arg, res |-> detect(call.arg)]
    /\ UNCHANGED mainVars

CallDetectHardware ==
    /\ call.fn = "pending"
    /\ call.kind = "hardware"
    /\ call' = [fn |-> "detect_hardware_cheating", arg |-> call.arg,
                res |-> detect_hardware_cheating(call.arg.bd, call.arg.probe)]
    /\ UNCHANGED mainVars

\* main.rs:239-247
CallFusion ==
    /\ call.fn = "pending"
    /\ call.kind = "fusion"
    /\ LET a == call.arg
           overall_risk == calculate_overall_risk(a.cfg, a.suspicious_processes,
                               a.hidden_overlays, a.audio_monitoring,
                               a.hardware_suspicion, a.vm_result)
       IN call' = [fn |-> "calculate_overall_risk", arg |-> a,
                   res |-> [overall_risk |-> overall_risk,
                            exceeds_threshold |-> exceeds_threshold(a.cfg, overall_risk)]]
    /\ UNCHANGED mainVars

NextScores == CallClassify \/ CallDetect \/ CallDetectHardware \/ CallFusion

SpecScores == InitScores /\ [][NextScores]_vars

Fused == call.fn = "calculate_overall_risk"

\* the contributions the claims name, in ten-thousandths
ClaimedProcessPart ==
    LET procs == call.arg.suspicious_processes
        risks == {procs[i].risk_score : i \in 1..Len(procs)}
    IN IF procs = <<>> THEN 0
       ELSE (CHOOSE r \in risks : \A q \in risks : q <= r)
                * call.arg.cfg.weights.process_risk

ClaimedOverlayPart ==
    IF call.arg.hidden_overlays = <<>> THEN 0
    ELSE 100 * call.arg.cfg.weights.overlay_risk

ClaimedAudioPart ==
    IF call.arg.audio_monitoring THEN 100 * call.arg.cfg.weights.audio_risk ELSE 0

ClaimedHardwarePart ==
    IF call.arg.hardware_suspicion.some
    THEN call.arg.hardware_suspicion.val.risk_score * call.arg.cfg.weights.hardware_risk
    ELSE 0

ClaimedVmPart ==
    IF call.arg.vm_result.some /\ call.arg.vm_result.val.is_vm
    THEN call.arg.vm_result.val.confidence_score * call.arg.cfg.weights.vm_risk
    ELSE 0

ClaimedSum ==
    ClaimedProcessPart + ClaimedOverlayPart + ClaimedAudioPart
        + ClaimedHardwarePart + ClaimedVmPart

(* C3: every score is in [0,1]: overall_risk_score for every config that   *)
(* validate() accepts and every combination of module results, every       *)
(* emitted process risk_score, the hardware risk_score and the VM          *)
(* confidence_score, also when the added weights exceed 1.0.               *)
C3_ScoresInUnitInterval ==
    /\ (Fused /\ validate(call.arg.cfg).ok =>
            0 <= call.res.overall_risk /\ call.res.overall_risk <= 10000)
    /\ (Classified =>
            \A i \in 1..Len(call.res) :
                0 <= call.res[i].risk_score /\ call.res[i].risk_score <= 100)
    /\ (call.fn = "detect_hardware_cheating" =>
            0 <= call.res.risk_score /\ call.res.risk_score <= 100)
    /\ (call.fn = "detect" =>
            0 <= call.res.confidence_score /\ call.res.confidence_score <= 100)

\* the weighted contributions of an accepted config (weights summing to
\* 1.01) add up to more than 1.0 and the overall score is 1.0
C3_Witness ==
    /\ Fused
    /\ validate(call.arg.cfg).ok
    /\ WeightSum(call.arg.cfg.weights) = 101
    /\ ClaimedSum > 10000
    /\ call.res.overall_risk = 10000

ScenarioOfTheSpec ==
    /\ call.arg.cfg = DefaultConfig
    /\ call.arg.suspicious_processes = <<Flagged(1, 80)>>
    /\ call.arg.hidden_overlays = <<>>
    /\ ~call.arg.audio_monitoring
    /\ call.arg.hardware_suspicion.some
    /\ call.arg.hardware_suspicion.val.risk_score = 40
    /\ call.arg.vm_result.some
    /\ call.arg.vm_result.val.is_vm
    /\ call.arg.vm_result.val.confidence_score = 90

(* C4: overall_risk_score is min(1.0, max process risk * w_process (when a *)
(* process is flagged) + w_overlay (when there is an overlay, however      *)
(* many) + w_audio (when audio is detected) + hardware risk * w_hardware   *)
(* (when the module succeeded) + VM confidence * w_vm (when it succeeded   *)
(* and is_vm)), and exceeds_threshold is overall_risk_score >=             *)
(* risk_threshold; the scenario of the spec gives 0.525 and true.          *)
C4_FusionFormula ==
    Fused =>
        /\ call.res.overall_risk = Min(10000, ClaimedSum)
        /\ call.res.exceeds_threshold =
                (call.res.overall_risk >= 100 * call.arg.cfg.scan.risk_threshold)
        /\ (ScenarioOfTheSpec =>
                call.res.overall_risk = 5250 /\ call.res.exceeds_threshold)

\* the scenario of the spec has been fused
C4_Witness == Fused /\ ScenarioOfTheSpec

VmCalled == call.fn = "detect"

\* the weights of the evidence the probe holds, as the claims name them
VmHypervisorBit == call.arg.hypervisor

VmVendorKnown == call.arg.hypervisor /\ call.arg.vendor # "None"

VmVendorAmbiguous == VmVendorKnown /\ call.arg.vendor \in {"HyperV", "Microsoft"}

VmAccumulated ==
    (IF VmHypervisorBit THEN 10 ELSE 0)
    + (IF VmVendorAmbiguous THEN 20 ELSE 0)
    + (IF VmVendorKnown /\ ~VmVendorAmbiguous THEN 80 ELSE 0)
    + (IF call.arg.system THEN 60 ELSE 0)
    + (IF call.arg.host THEN 30 ELSE 0)
    + (IF call.arg.macs # <<>> THEN 50 ELSE 0)

\* hypervisor bit without vendor info, plus a suspicious system model
BitAndSystemModel ==
    /\ VmHypervisorBit
    /\ ~VmVendorKnown
    /\ call.arg.system
    /\ ~call.arg.host
    /\ call.arg.macs = <<>>

(* C21 as stated: is_vm is true when the accumulated confidence is at or   *)
(* above 0.7 and false otherwise; hypervisor bit without vendor info plus  *)
(* a suspicious system model gives confidence 0.7 and is_vm = true.        *)
C21_VerdictAtOrAboveCutoff ==
    VmCalled =>
        /\ call.res.is_vm = (VmAccumulated >= 70)
        /\ (BitAndSystemModel => call.res.confidence_score = 70 /\ call.res.is_vm)

(* C21 as amended: is_vm is true when the accumulated confidence is        *)
(* strictly above 0.7 and false otherwise, whatever the config; hypervisor *)
(* bit without vendor info plus a suspicious system model gives confidence *)
(* 0.7 and is_vm = false.                                                  *)
C21_VerdictStrictlyAboveCutoff ==
    VmCalled =>
        /\ call.res.is_vm = (VmAccumulated > 70)
        /\ call.res.confidence_score = Min(100, VmAccumulated)
        /\ (BitAndSystemModel => call.res.confidence_score = 70 /\ ~call.res.is_vm)

\* the probe with confidence 0.7 exactly has been judged
C21_Witness == VmCalled /\ BitAndSystemModel /\ call.res.confidence_score = 70

(* C22: an ambiguous (Hyper-V / Microsoft) vendor adds 0.2 where another   *)
(* vendor adds 0.8: hypervisor bit plus an ambiguous vendor alone gives    *)
(* confidence 0.3, is_vm = false and nothing in the overall score;         *)
(* hypervisor bit plus another vendor alone gives 0.9 and is_vm = true;    *)
(* with an ambiguous vendor is_vm needs a suspicious system model or a VM  *)
(* MAC prefix.                                                             *)
C22_AmbiguousVendorReducedWeight ==
    VmCalled /\ VmVendorKnown =>
        LET rest == (IF call.arg.system THEN 60 ELSE 0)
                        + (IF call.arg.host THEN 30 ELSE 0)
                        + (IF call.arg.macs # <<>> THEN 50 ELSE 0)
            alone == ~call.arg.system /\ ~call.arg.host /\ call.arg.macs = <<>>
        IN  /\ (VmVendorAmbiguous =>
                    /\ call.res.confidence_score = Min(100, 10 + 20 + rest)
                    /\ (call.res.is_vm <=> (call.arg.system \/ call.arg.macs # <<>>))
                    /\ (alone =>
                            /\ call.res.confidence_score = 30
                            /\ ~call.res.is_vm
                            /\ \A cfg \in FusionConfigs :
                                    calculate_overall_risk(cfg, <<>>, <<>>, FALSE, None,
                                                           Some(call.res)) = 0))
            /\ (~VmVendorAmbiguous =>
                    /\ call.res.confidence_score = Min(100, 10 + 80 + rest)
                    /\ call.res.is_vm
                    /\ (alone => call.res.confidence_score = 90))

\* hypervisor bit and a Hyper-V vendor, with a suspicious hostname on top:
\* confidence 0.6 and no VM verdict
C22_Witness ==
    /\ VmCalled
    /\ VmVendorAmbiguous
    /\ call.arg.host
    /\ ~call.arg.system
    /\ call.arg.macs = <<>>
    /\ call.res.confidence_score = 60
    /\ ~call.res.is_vm

HardwareCalled == call.fn = "detect_hardware_cheating"

\* the process heuristics in their evaluation order
ProcessReasonOrder ==
    <<"Has screen capture permission",
      "Has audio capture permission",
      "Has accessibility API access",
      "Suspicious process name",
      "Started during interview">>

\* whether the k-th process heuristic matches the classified process
ProcessHeuristicMatches(k) ==
    CASE k = 1 -> SigScreen
      [] k = 2 -> SigAudio
      [] k = 3 -> SigAccess
      [] k = 4 -> SigSuspiciousName
      [] k = 5 -> SigStartedDuring /\ ~SigWhitelisted

\* the VM heuristics in their evaluation order; the vendor heuristic has
\* two wordings
VmReasonRank(r) ==
    CASE r = "CPUID hypervisor bit set" -> 1
      [] r \in {"Hypervisor Vendor (Ambiguous)", "Hypervisor Vendor detected"} -> 2
      [] r = "Suspicious System Model" -> 3
      [] r = "Suspicious Hostname" -> 4
      [] OTHER -> 5

VmHeuristicMatches(k) ==
    CASE k = 1 -> VmHypervisorBit
      [] k = 2 -> VmVendorKnown
      [] k = 3 -> call.arg.system
      [] k = 4 -> call.arg.host

\* the hardware heuristics in their evaluation order; the two connection
\* heuristics are evaluated together, display by display
HardwareFlagRank(f) ==
    CASE f.text = "HDMI splitter signature detected" -> 1
      [] f.text = "Virtual display detected" -> 2
      [] f.text = "Multiple displays detected" -> 3
      [] f.text = "Display configuration changed during interview" -> 4
      [] f.text = "New display connected during interview" -> 5
      [] f.text \in {"USB display detected", "Wireless display detected"} -> 6
      [] f.text = "Remote desktop connection detected" -> 7
      [] OTHER -> 8

\* the flags of rank k, in the order they stand in the list
FlagsOfRank(flags, k) ==
    LET Is(f) == HardwareFlagRank(f) = k IN SelectSeq(flags, Is)

\* the flags the per-display heuristics owe: one for every display that is
\* not in the baseline, then one for every USB or wireless display
NewDisplayFlags ==
    IF ~call.arg.bd.some THEN <<>>
    ELSE LET known == {call.arg.bd.val.displays[i].id :
                            i \in DOMAIN call.arg.bd.val.displays}
             IsNew(d) == d.id \notin known
             new == SelectSeq(call.arg.probe.display.val.displays, IsNew)
         IN [i \in DOMAIN new |->
                [text |-> "New display connected during interview",
                 args |-> <<new[i].name>>]]

ConnectionFlags ==
    LET IsExternal(d) == d.connection_type \in {"USB", "Wireless"}
        ext == SelectSeq(call.arg.probe.display.val.displays, IsExternal)
    IN [i \in DOMAIN ext |->
            [text |-> IF ext[i].connection_type = "USB"
                      THEN "USB display detected" ELSE "Wireless display detected",
             args |-> <<ext[i].name>>]]

HardwareOnceMatches(k) ==
    LET cur == call.arg.probe.display.val IN
    CASE k = 1 -> cur.has_hdmi_splitter_signature
      [] k = 2 -> cur.has_virtual_display
      [] k = 3 -> cur.display_count > 1
      [] k = 4 -> call.arg.bd.some /\ call.arg.bd.val.display_count # cur.display_count
      [] k = 7 -> call.arg.probe.rdp

ProcessReasonsInOrder ==
    (Classified /\ Emitted) =>
        LET rs == call.res[1].reasons
            Rank(r) == CHOOSE k \in 1..5 : ProcessReasonOrder[k] = r
        IN  /\ \A i \in DOMAIN rs : \E k \in 1..5 : ProcessReasonOrder[k] = rs[i]
            /\ \A i, j \in DOMAIN rs : i < j => Rank(rs[i]) < Rank(rs[j])
            /\ \A k \in 1..5 :
                    (\E i \in DOMAIN rs : rs[i] = ProcessReasonOrder[k])
                        <=> ProcessHeuristicMatches(k)

VmReasonsInOrder ==
    VmCalled =>
        LET rs == call.res.reasons
            fixed == Len(rs) - Len(call.arg.macs)
        IN  /\ fixed >= 0
            /\ \A i \in 1..fixed : VmReasonRank(rs[i]) <= 4
            /\ \A i, j \in 1..fixed : i < j => VmReasonRank(rs[i]) < VmReasonRank(rs[j])
            /\ \A k \in 1..4 :
                    (\E i \in 1..fixed : VmReasonRank(rs[i]) = k) <=> VmHeuristicMatches(k)
            /\ (VmVendorKnown =>
                    \E i \in 1..fixed :
                        rs[i] = IF VmVendorAmbiguous THEN "Hypervisor Vendor (Ambiguous)"
                                ELSE "Hypervisor Vendor detected")
            /\ SubSeq(rs, fixed + 1, Len(rs)) = call.arg.macs

HardwareFlagsInOrder ==
    HardwareCalled =>
        LET fs == call.res.flags IN
        IF ~call.arg.probe.display.ok
        THEN /\ Len(fs) = 1
             /\ fs[1].text = "Unable to detect display configuration"
        ELSE /\ \A i \in DOMAIN fs : HardwareFlagRank(fs[i]) <= 7
             /\ \A i, j \in DOMAIN fs :
                    i < j => HardwareFlagRank(fs[i]) <= HardwareFlagRank(fs[j])
             /\ \A k \in {1, 2, 3, 4, 7} :
                    Len(FlagsOfRank(fs, k)) = IF HardwareOnceMatches(k) THEN 1 ELSE 0
             /\ FlagsOfRank(fs, 5) = NewDisplayFlags
             /\ FlagsOfRank(fs, 6) = ConnectionFlags

(* C23: the reasons of every emitted ProcessSuspicion are exactly one      *)
(* reason per matched heuristic, in the evaluation order screen capture,   *)
(* audio capture, accessibility, suspicious name, started during           *)
(* interview, with no duplicates and no reason for an unmatched heuristic; *)
(* the VM reasons and the hardware flags likewise follow their evaluation  *)
(* order, one per match (one per matching display for the heuristics       *)
(* evaluated display by display).                                          *)
C23_ReasonOrder ==
    /\ ProcessReasonsInOrder
    /\ VmReasonsInOrder
    /\ HardwareFlagsInOrder

\* a process matching the first, third and fourth heuristic was emitted
\* with these three reasons
C23_Witness ==
    /\ Classified
    /\ Emitted
    /\ SigScreen /\ ~SigAudio /\ SigAccess /\ SigSuspiciousName
    /\ Len(call.res[1].reasons) = 3

\* a cycle of the hardware module in which every heuristic matched
C23_HardwareExample ==
    /\ HardwareCalled
    /\ call.arg.probe.display.ok
    /\ \A k \in 1..7 : \E i \in DOMAIN call.res.flags :
            HardwareFlagRank(call.res.flags[i]) = k
    /\ Len(FlagsOfRank(call.res.flags, 6)) = 2

\* one module output is at least as strong as another, as the claims
\* order them
ProcessesAtLeast(a, b) ==
    \/ a = <<>>
    \/ /\ b # <<>>
       /\ \A i \in DOMAIN a : \E j \in DOMAIN b : a[i].risk_score <= b[j].risk_score

OverlaysAtLeast(a, b) == a = <<>> \/ b # <<>>

AudioAtLeast(a, b) == a => b

HardwareAtLeast(a, b) ==
    \/ ~a.some
    \/ (b.some /\ a.val.risk_score <= b.val.risk_score)

VmAtLeast(a, b) ==
    \/ ~a.some
    \/ /\ b.some
       /\ \/ (~a.val.is_vm /\ b.val.is_vm)
          \/ (a.val.is_vm = b.val.is_vm
                /\ a.val.confidence_score <= b.val.confidence_score)

\* the fused call with one module output strengthened and the others equal
SingleStrengthenings ==
    LET a == call.arg IN
    {[a EXCEPT !.suspicious_processes = p] :
        p \in {q \in FusionProcessLists : ProcessesAtLeast(a.suspicious_processes, q)}}
    \cup {[a EXCEPT !.hidden_overlays = o] :
        o \in {q \in FusionOverlayLists : OverlaysAtLeast(a.hidden_overlays, q)}}
    \cup {[a EXCEPT !.audio_monitoring = u] :
        u \in {q \in BOOLEAN : AudioAtLeast(a.audio_monitoring, q)}}
    \cup {[a EXCEPT !.hardware_suspicion = h] :
        h \in {q \in FusionHardwareResults : HardwareAtLeast(a.hardware_suspicion, q)}}
    \cup {[a EXCEPT !.vm_result = v] :
        v \in {q \in FusionVmResults : VmAtLeast(a.vm_result, q)}}

FusionOf(a) ==
    calculate_overall_risk(a.cfg, a.suspicious_processes, a.hidden_overlays,
                           a.audio_monitoring, a.hardware_suspicion, a.vm_result)

(* C30: for a fixed config that passes validate(), strengthening a single  *)
(* module output while the others stay equal (a higher maximum process     *)
(* risk, overlays from empty to non-empty, audio from false to true,       *)
(* hardware from absent to present or to a higher risk_score, VM from      *)
(* absent or not-VM to is_vm or to a higher confidence) never decreases    *)
(* overall_risk_score and never turns exceeds_threshold from true to false.*)
C30_FusionMonotone ==
    (Fused /\ validate(call.arg.cfg).ok) =>
        \A b \in SingleStrengthenings :
            /\ FusionOf(b) >= call.res.overall_risk
            /\ (call.res.exceeds_threshold => exceeds_threshold(b.cfg, FusionOf(b)))

\* a fused cycle under a valid config, below the threshold, that a stronger
\* process result, and also a VM verdict, lifts over it
C30_Witness ==
    /\ Fused
    /\ validate(call.arg.cfg).ok
    /\ ~call.res.exceeds_threshold
    /\ call.arg.suspicious_processes = <<Flagged(1, 80)>>
    /\ call.arg.vm_result.some /\ ~call.arg.vm_result.val.is_vm
    /\ \E b \in SingleStrengthenings :
            /\ b.suspicious_processes # call.arg.suspicious_processes
            /\ exceeds_threshold(b.cfg, FusionOf(b))
    /\ \E b \in SingleStrengthenings :
            /\ b.vm_result # call.arg.vm_result
            /\ FusionOf(b) > call.res.overall_risk

----------------------------------------------------------------------------

SumOffByMoreThanTolerance(c) ==
    LET s == WeightSum(c.weights) IN s < 99 \/ s > 101

HasNegativeWeight(c) ==
    \E k \in DOMAIN c.weights : c.weights[k] < 0

ThresholdOutOfRange(c) ==
    ~(0 <= c.scan.risk_threshold /\ c.scan.risk_threshold <= 100)

C10_InvalidInterviewTypeRejected ==
    (/\ call.fn = "validate"
     /\ call.arg.cfg = [DefaultConfig EXCEPT !.scan.interview_type = "invalid"])
        => ~call.res.ok

====
